---- MODULE Spec2Model ----
(***************************************************************************)
(* Verification model of three parts of smoldot:                           *)
(*                                                                         *)
(*  - the GRANDPA warp-sync state machine (src/sync/grandpa_warp_sync.rs), *)
(*    specifications SpecWarp and SpecSources;                             *)
(*  - the runtime service of the wasm node                                 *)
(*    (bin/wasm-node/rust/src/runtime_service.rs): the background task     *)
(*    that follows best blocks, the runtime-call executor and metadata(),  *)
(*    sharing the LatestKnownRuntime cache behind a mutex, specifications  *)
(*    SpecRuntime and SpecUpgrades;                                        *)
(*  - the SCALE compact encoding of a usize (src/util.rs), specification   *)
(*    SpecUtil.                                                            *)
(*                                                                         *)
(* Option<T> values are modelled as sequences of length at most one:       *)
(* None is <<>> and Some(x) is <<x>>.                                      *)
(***************************************************************************)
EXTENDS Integers, Sequences, FiniteSets, TLC

(***************************************************************************)
(* Bounds of the model.                                                    *)
(***************************************************************************)
\* Number of add_source calls made by the API user over a run.
MaxSources == 2
MaxInsertions == 4
\* Largest number of fragments in one GrandpaWarpSyncResponse.
MaxFragments == 2
\* Largest GRANDPA authorities set id reached by verification.
MaxSetId == 2
\* Largest number of babe_fetch_epoch::Query values produced between two
\* pause points of from_babe_fetch_epoch_query.
MaxRun == 3

\* Block numbers carried by fragment headers, and BABE epoch indices returned
\* by the runtime.
HeaderNumbers == {1, 2}
EpochIndices == {0, 1}

None == <<>>
Some(x) == <<x>>
IsSome(o) == o # <<>>
Unwrap(o) == o[1]

SetMin(S) == CHOOSE x \in S : \A y \in S : x <= y

(***************************************************************************)
(* slab::Slab<Source<TSrc>>.  Keys are slot indices (here counted from 1). *)
(* A removed slot is put at the head of the free list and is the first to  *)
(* be reused by a later insert; iteration is by increasing slot index.     *)
(***************************************************************************)
NoSource == 0

VacantEntry(next) ==
    [occupied |-> FALSE, user_data |-> 0, already_tried |-> FALSE, next_vacant |-> next]

Source(user_data) ==
    [occupied |-> TRUE, user_data |-> user_data, already_tried |-> FALSE, next_vacant |-> 0]

SlabNew == [entries |-> <<>>, next |-> 1]

SlabContains(slab, key) ==
    key \in 1..Len(slab.entries) /\ slab.entries[key].occupied

SlabKeys(slab) == {k \in 1..Len(slab.entries) : slab.entries[k].occupied}

SlabVacantKey(slab) == slab.next

SlabInsert(slab, val) ==
    IF slab.next = Len(slab.entries) + 1
    THEN [entries |-> Append(slab.entries, val), next |-> slab.next + 1]
    ELSE [entries |-> [slab.entries EXCEPT ![slab.next] = val],
          next |-> slab.entries[slab.next].next_vacant]

SlabRemove(slab, key) ==
    [entries |-> [slab.entries EXCEPT ![key] = VacantEntry(slab.next)],
     next |-> key]

\* Slab::drain followed by map(|source| source.user_data).collect(): the user
\* data of the occupied slots, by increasing slot index.
RECURSIVE DrainFrom(_, _)
DrainFrom(entries, k) ==
    IF k > Len(entries) THEN <<>>
    ELSE IF entries[k].occupied
         THEN <<entries[k].user_data>> \o DrainFrom(entries, k + 1)
         ELSE DrainFrom(entries, k + 1)

\* Mutant: every slot is listed, vacant or not.
SlabDrain_slots(slab) == [k \in 1..Len(slab.entries) |-> slab.entries[k].user_data]

SlabDrain(slab) == DrainFrom(slab.entries, 1)

\* Mutant: the flag of the source is left as it is.
MarkTried_none(slab, key) == slab

MarkTried(slab, key) ==
    [slab EXCEPT !.entries[key].already_tried = TRUE]

AllTried(slab) == \A k \in SlabKeys(slab) : slab.entries[k].already_tried

(***************************************************************************)
(* Chain data.  A header is identified by its block number; its hash is a  *)
(* tagged copy of it.  A ChainInformationFinality holds the authorities    *)
(* set id and the block whose fragment installed the authorities.          *)
(***************************************************************************)
HeaderHash(h) == <<"hash", h>>

Finality(set_id, authorities) ==
    [after_finalized_block_authorities_set_id |-> set_id,
     finalized_triggered_authorities |-> authorities]

ChainInfo(h, fin, spe) ==
    [finalized_block_header |-> h, finality |-> fin, slots_per_epoch |-> spe,
     finalized_block_epoch_information |-> None,
     finalized_next_epoch_transition |-> None]

\* The trusted anchors the machine can be started from (Config).
Anchors == {ChainInfo(0, Finality(0, 0), spe) : spe \in {1, 2}}

\* A fragment: the header it finalizes and whether its justification
\* verifies against the authorities the verifier currently holds.
Fragments == [header : HeaderNumbers, valid : BOOLEAN]

RECURSIVE SeqsUpTo(_, _)
SeqsUpTo(S, n) ==
    IF n = 0 THEN {<<>>}
    ELSE LET shorter == SeqsUpTo(S, n - 1)
         IN shorter \cup {Append(s, x) : s \in {t \in shorter : Len(t) = n - 1}, x \in S}

\* GrandpaWarpSyncResponse values handed to handle_response.
Responses ==
    [fragments : SeqsUpTo(Fragments, MaxFragments) \ {<<>>}, is_finished : BOOLEAN]


(***************************************************************************)
(* Dependencies of the warp-sync machine whose code lives outside the four *)
(* files modelled here.                                                    *)
(***************************************************************************)
\* finality::grandpa::warp_sync::Verifier::new.  seed remembers the finality
\* the verifier was constructed from.
WarpSyncVerifierNew(start_finality, fragments, is_proof_complete) ==
    [seed |-> start_finality,
     authorities_set_id |-> start_finality.after_finalized_block_authorities_set_id,
     authorities_list |-> start_finality.finalized_triggered_authorities,
     fragments |-> fragments,
     is_proof_complete |-> is_proof_complete]

NoFinality == Finality(0, 0)

\* finality::grandpa::warp_sync::Verifier::next: checks the fragment at the
\* head of the queue; the last fragment yields the header and the finality.
WarpSyncVerifierNext(v) ==
    LET f == Head(v.fragments)
        stepped == [v EXCEPT !.fragments = Tail(v.fragments),
                             !.authorities_set_id = v.authorities_set_id + 1,
                             !.authorities_list = f.header]
    IN IF ~f.valid
       THEN [kind |-> "Err", verifier |-> v, header |-> 0,
             chain_information_finality |-> NoFinality]
       ELSE IF Len(v.fragments) = 1
       THEN [kind |-> "Success", verifier |-> stepped, header |-> f.header,
             chain_information_finality |-> Finality(v.authorities_set_id + 1, f.header)]
       ELSE [kind |-> "NotFinished", verifier |-> stepped, header |-> 0,
             chain_information_finality |-> NoFinality]

\* Values of :code and :heappages handed to the executor.  Code "Bad" does
\* not compile; the other codes compile and report the spec version below.
Codes == {"B0", "B1", "B2", "Bad"}

CodeCompiles(code) == code # "Bad"

SpecVersionOf(code) ==
    CASE code = "B0" -> 1
      [] code = "B1" -> 1
      [] code = "B2" -> 2
      [] OTHER -> 0

HeapPagesValid == <<8, 0, 0, 0, 0, 0, 0, 0>>
HeapPagesInvalid == <<8>>
HeapPagesValues == {HeapPagesValid, HeapPagesInvalid}
\* executor::storage_heap_pages_to_value: the default when the key is absent,
\* the little-endian u64 when the value has 8 bytes, an error otherwise.
storage_heap_pages_to_value(heap_pages) ==
    IF heap_pages = None THEN [ok |-> TRUE, value |-> <<"default">>]
    ELSE IF Len(Unwrap(heap_pages)) = 8
         THEN [ok |-> TRUE, value |-> Unwrap(heap_pages)]
         ELSE [ok |-> FALSE, value |-> "invalid"]

\* executor::host::HostVmPrototype::new.
HostVmPrototypeNew(code, heap_pages_value) ==
    [ok |-> CodeCompiles(code), vm |-> [code |-> code, heap_pages |-> heap_pages_value]]

\* The values a babe_fetch_epoch::Query takes.
QueryValues ==
    {[kind |-> k, ok |-> FALSE, epoch |-> 0] : k \in {"StorageGet", "NextKey", "StorageRoot"}}
    \cup {[kind |-> "Finished", ok |-> FALSE, epoch |-> 0]}
    \cup {[kind |-> "Finished", ok |-> TRUE, epoch |-> e] : e \in EpochIndices}

\* The sequences of values a query goes through while the machine drives it
\* without returning to the caller.
\* Only the last value can be one the loop returns on, and a run holds at
\* most the results of the two epoch queries.
QueryPasses(q) == q.kind = "StorageRoot" \/ (q.kind = "Finished" /\ q.ok)

QueryRuns ==
    {Append(p, q) :
        p \in {r \in SeqsUpTo({v \in QueryValues : QueryPasses(v)}, MaxRun - 1) :
                  Cardinality({i \in 1..Len(r) : r[i].kind = "Finished"}) <= 2},
        q \in QueryValues}

\* ValidChainInformation::try_from: the next epoch must follow the current one.
ValidChainInformation(ci) ==
    /\ IsSome(ci.finalized_block_epoch_information)
    /\ IsSome(ci.finalized_next_epoch_transition)
    /\ Unwrap(ci.finalized_next_epoch_transition)
         = Unwrap(ci.finalized_block_epoch_information) + 1

(***************************************************************************)
(* The state machine value (GrandpaWarpSync<TSrc>).  One record stands for *)
(* the enum: tag is the variant, and the fields a variant does not have    *)
(* keep their defaults.                                                    *)
(***************************************************************************)
NoChainInfo == ChainInfo(0, NoFinality, 0)
NoError == "NoError"

InProgressTags ==
    {"StorageGet", "NextKey", "Verifier", "WarpSyncRequest",
     "VirtualMachineParamsGet", "WaitingForSources"}
PostVerificationTags == {"StorageGet", "NextKey", "VirtualMachineParamsGet"}

Machine(tag, sources, start) ==
    [tag |-> tag,
     sources |-> sources,
     start_chain_information |-> start,
     source_id |-> NoSource,
     previous_verifier_values |-> None,
     verifier |-> None,
     final_set_of_fragments |-> FALSE,
     header |-> 0,
     chain_information_finality |-> NoFinality,
     fetched_current_epoch |-> None,
     runtime |-> None,
     success |-> None]

WaitingForSources(sources, state, previous_verifier_values) ==
    [Machine("WaitingForSources", sources, state)
        EXCEPT !.previous_verifier_values = previous_verifier_values]

WarpSyncRequest(source_id, sources, state, previous_verifier_values) ==
    [Machine("WarpSyncRequest", sources, state)
        EXCEPT !.source_id = source_id,
               !.previous_verifier_values = previous_verifier_values]

Verifier(verifier, state, warp_sync_source_id, sources, final_set_of_fragments, previous_verifier_values) ==
    [Machine("Verifier", sources, state)
        EXCEPT !.source_id = warp_sync_source_id,
               !.verifier = Some(verifier),
               !.final_set_of_fragments = final_set_of_fragments,
               !.previous_verifier_values = previous_verifier_values]

\* A state holding a PostVerificationState.
PostVerification(tag, header, chain_information_finality, start, sources, warp_sync_source_id) ==
    [Machine(tag, sources, start)
        EXCEPT !.source_id = warp_sync_source_id,
               !.header = header,
               !.chain_information_finality = chain_information_finality]

Finished(chain_information, runtime, sources) ==
    [Machine("Finished", SlabNew, NoChainInfo)
        EXCEPT !.success = Some([chain_information |-> chain_information,
                                 runtime |-> runtime,
                                 sources |-> sources])]

\* grandpa_warp_sync(config)
grandpa_warp_sync(config) ==
    WaitingForSources(SlabNew, config, None)

Result(machine, error, selected) ==
    [machine |-> machine, error |-> error, selected |-> selected, complete |-> TRUE]

\* Mutant: the scan takes the first source, tried or not.
warp_sync_request_from_any_source(sources, state, previous_verifier_values) ==
    IF SlabKeys(sources) # {}
    THEN WarpSyncRequest(SetMin(SlabKeys(sources)), sources, state,
                         previous_verifier_values)
    ELSE WaitingForSources(sources, state, previous_verifier_values)

\* Mutant: the scan gives up when the first source has been tried.
warp_sync_request_from_first_source(sources, state, previous_verifier_values) ==
    LET keys == SlabKeys(sources)
    IN IF keys # {} /\ ~sources.entries[SetMin(keys)].already_tried
       THEN WarpSyncRequest(SetMin(keys), sources, state, previous_verifier_values)
       ELSE WaitingForSources(sources, state, previous_verifier_values)

\* Mutant: the scan runs from the last slot to the first.
warp_sync_request_from_last_source(sources, state, previous_verifier_values) ==
    LET untried == {k \in SlabKeys(sources) : ~sources.entries[k].already_tried}
    IN IF untried # {}
       THEN WarpSyncRequest(-SetMin({-k : k \in untried}), sources, state,
                            previous_verifier_values)
       ELSE WaitingForSources(sources, state, previous_verifier_values)

\* InProgressGrandpaWarpSync::warp_sync_request_from_next_source
warp_sync_request_from_next_source(sources, state, previous_verifier_values) ==
    LET untried == {k \in SlabKeys(sources) : ~sources.entries[k].already_tried}
    IN IF untried # {}
       THEN WarpSyncRequest(SetMin(untried), sources, state, previous_verifier_values)
       ELSE WaitingForSources(sources, state, previous_verifier_values)

\* WarpSyncRequest::start_block_hash
start_block_hash(self) ==
    IF IsSome(self.previous_verifier_values)
    THEN HeaderHash(Unwrap(self.previous_verifier_values).header)
    ELSE HeaderHash(self.start_chain_information.finalized_block_header)

\* The add_source methods of StorageGet, NextKey, Verifier, WarpSyncRequest
\* and VirtualMachineParamsGet: the source is inserted, nothing else changes.
add_source(self, user_data) ==
    [self EXCEPT !.sources = SlabInsert(self.sources, Source(user_data))]

\* Mutant: the request for the new source starts again from the anchor.
WaitingForSources_add_source_from_anchor(self, user_data) ==
    WarpSyncRequest(SlabVacantKey(self.sources),
                    SlabInsert(self.sources, Source(user_data)),
                    self.start_chain_information,
                    None)

\* WaitingForSources::add_source
WaitingForSources_add_source(self, user_data) ==
    WarpSyncRequest(SlabVacantKey(self.sources),
                    SlabInsert(self.sources, Source(user_data)),
                    self.start_chain_information,
                    self.previous_verifier_values)

\* WaitingForSources::remove_source
WaitingForSources_remove_source(self, to_remove) ==
    Result([self EXCEPT !.sources = SlabRemove(self.sources, to_remove)], NoError, FALSE)

\* Mutant: the request stays attached to the source that was removed.
WarpSyncRequest_remove_source_keeps(self, to_remove) ==
    Result([self EXCEPT !.sources = SlabRemove(self.sources, to_remove)], NoError, FALSE)

\* WarpSyncRequest::remove_source
WarpSyncRequest_remove_source(self, to_remove) ==
    LET sources == SlabRemove(self.sources, to_remove)
    IN IF to_remove = self.source_id
       THEN Result(warp_sync_request_from_next_source(
                       sources, self.start_chain_information,
                       self.previous_verifier_values),
                   NoError, TRUE)
       ELSE Result([self EXCEPT !.sources = sources], NoError, FALSE)

\* Mutant: removing any source abandons the verification.
Verifier_remove_source_restarts(self, to_remove) ==
    LET sources == SlabRemove(self.sources, to_remove)
    IN Result(warp_sync_request_from_next_source(
                  sources, self.start_chain_information,
                  self.previous_verifier_values),
              NoError, TRUE)

\* Verifier::remove_source
Verifier_remove_source(self, to_remove) ==
    LET sources == SlabRemove(self.sources, to_remove)
    IN IF to_remove = self.source_id
       THEN Result(warp_sync_request_from_next_source(
                       sources, self.start_chain_information,
                       self.previous_verifier_values),
                   NoError, TRUE)
       ELSE Result([self EXCEPT !.sources = sources], NoError, FALSE)

\* Mutant: the verified header and finality are kept for the next request.
PostVerificationState_remove_source_keeps(self, to_remove) ==
    LET sources == SlabRemove(self.sources, to_remove)
    IN IF to_remove = self.source_id
       THEN Result(warp_sync_request_from_next_source(
                       sources, self.start_chain_information,
                       Some([header |-> self.header,
                             chain_information_finality |->
                                 self.chain_information_finality])),
                   NoError, TRUE)
       ELSE Result([self EXCEPT !.sources = sources], NoError, FALSE)

\* PostVerificationState::remove_source, with the match of
\* InProgressGrandpaWarpSync::remove_source on its result.
PostVerificationState_remove_source(self, to_remove) ==
    LET sources == SlabRemove(self.sources, to_remove)
    IN IF to_remove = self.source_id
       THEN Result(warp_sync_request_from_next_source(
                       sources, self.start_chain_information, None),
                   NoError, TRUE)
       ELSE Result([self EXCEPT !.sources = sources], NoError, FALSE)

\* InProgressGrandpaWarpSync::sources
SourceIds(self) == SlabKeys(self.sources)

\* Mutant: the id is taken as a position in the list sources() returns.
source_user_data_by_position(self, source_id) ==
    LET listed == SlabDrain(self.sources)
    IN IF source_id <= Len(listed) THEN listed[source_id] ELSE 0

\* InProgressGrandpaWarpSync::source_user_data
source_user_data(self, source_id) == self.sources.entries[source_id].user_data

\* InProgressGrandpaWarpSync::remove_source
remove_source(self, to_remove) ==
    CASE self.tag = "WaitingForSources" -> WaitingForSources_remove_source(self, to_remove)
      [] self.tag = "WarpSyncRequest" -> WarpSyncRequest_remove_source(self, to_remove)
      [] self.tag = "Verifier" -> Verifier_remove_source(self, to_remove)
      [] OTHER -> PostVerificationState_remove_source(self, to_remove)

\* Mutant: the source of the request is not marked.
handle_response_unmarked(self, response) ==
    LET sources == self.sources
    IN IF IsSome(response)
       THEN LET final_set_of_fragments == Unwrap(response).is_finished
                verifier ==
                    IF IsSome(self.previous_verifier_values)
                    THEN WarpSyncVerifierNew(
                             Unwrap(self.previous_verifier_values).chain_information_finality,
                             Unwrap(response).fragments, final_set_of_fragments)
                    ELSE WarpSyncVerifierNew(
                             self.start_chain_information.finality,
                             Unwrap(response).fragments, final_set_of_fragments)
            IN Result(Verifier(verifier, self.start_chain_information, self.source_id,
                               sources, final_set_of_fragments,
                               self.previous_verifier_values),
                      NoError, FALSE)
       ELSE Result(warp_sync_request_from_next_source(
                       sources, self.start_chain_information,
                       self.previous_verifier_values),
                   NoError, TRUE)

\* Mutant: a failed request also drops the values accepted before it.
handle_response_forgets(self, response) ==
    LET sources == MarkTried(self.sources, self.source_id)
    IN IF IsSome(response)
       THEN LET final_set_of_fragments == Unwrap(response).is_finished
                verifier ==
                    IF IsSome(self.previous_verifier_values)
                    THEN WarpSyncVerifierNew(
                             Unwrap(self.previous_verifier_values).chain_information_finality,
                             Unwrap(response).fragments, final_set_of_fragments)
                    ELSE WarpSyncVerifierNew(
                             self.start_chain_information.finality,
                             Unwrap(response).fragments, final_set_of_fragments)
            IN Result(Verifier(verifier, self.start_chain_information, self.source_id,
                               sources, final_set_of_fragments,
                               self.previous_verifier_values),
                      NoError, FALSE)
       ELSE Result(warp_sync_request_from_next_source(
                       sources, self.start_chain_information, None),
                   NoError, TRUE)

\* WarpSyncRequest::handle_response
handle_response(self, response) ==
    LET sources == MarkTried(self.sources, self.source_id)
    IN IF IsSome(response)
       THEN LET final_set_of_fragments == Unwrap(response).is_finished
                verifier ==
                    IF IsSome(self.previous_verifier_values)
                    THEN WarpSyncVerifierNew(
                             Unwrap(self.previous_verifier_values).chain_information_finality,
                             Unwrap(response).fragments, final_set_of_fragments)
                    ELSE WarpSyncVerifierNew(
                             self.start_chain_information.finality,
                             Unwrap(response).fragments, final_set_of_fragments)
            IN Result(Verifier(verifier, self.start_chain_information, self.source_id,
                               sources, final_set_of_fragments,
                               self.previous_verifier_values),
                      NoError, FALSE)
       ELSE Result(warp_sync_request_from_next_source(
                       sources, self.start_chain_information,
                       self.previous_verifier_values),
                   NoError, TRUE)

\* Mutant: a failed fragment also drops the values accepted before it.
Verifier_next_forgets(self) ==
    LET r == WarpSyncVerifierNext(Unwrap(self.verifier))
    IN CASE r.kind = "NotFinished" ->
              Result([self EXCEPT !.verifier = Some(r.verifier)], NoError, FALSE)
         [] r.kind = "Success" ->
              IF self.final_set_of_fragments
              THEN Result(PostVerification("VirtualMachineParamsGet", r.header,
                                           r.chain_information_finality,
                                           self.start_chain_information,
                                           self.sources, self.source_id),
                          NoError, FALSE)
              ELSE Result(WarpSyncRequest(
                              self.source_id, self.sources, self.start_chain_information,
                              Some([header |-> r.header,
                                    chain_information_finality |->
                                        r.chain_information_finality])),
                          NoError, FALSE)
         [] OTHER ->
              Result(warp_sync_request_from_next_source(
                         self.sources, self.start_chain_information, None),
                     "FragmentError", TRUE)

\* Mutant: a failed fragment leaves the machine on the failed verifier.
Verifier_next_stays(self) ==
    LET r == WarpSyncVerifierNext(Unwrap(self.verifier))
    IN CASE r.kind = "NotFinished" ->
              Result([self EXCEPT !.verifier = Some(r.verifier)], NoError, FALSE)
         [] r.kind = "Success" ->
              IF self.final_set_of_fragments
              THEN Result(PostVerification("VirtualMachineParamsGet", r.header,
                                           r.chain_information_finality,
                                           self.start_chain_information,
                                           self.sources, self.source_id),
                          NoError, FALSE)
              ELSE Result(WarpSyncRequest(
                              self.source_id, self.sources, self.start_chain_information,
                              Some([header |-> r.header,
                                    chain_information_finality |->
                                        r.chain_information_finality])),
                          NoError, FALSE)
         [] OTHER -> Result(self, "FragmentError", FALSE)

\* Mutant: a verified batch that is not the last one goes through source
\* selection before the next request.
Verifier_next_reselects(self) ==
    LET r == WarpSyncVerifierNext(Unwrap(self.verifier))
    IN CASE r.kind = "NotFinished" ->
              Result([self EXCEPT !.verifier = Some(r.verifier)], NoError, FALSE)
         [] r.kind = "Success" ->
              IF self.final_set_of_fragments
              THEN Result(PostVerification("VirtualMachineParamsGet", r.header,
                                           r.chain_information_finality,
                                           self.start_chain_information,
                                           self.sources, self.source_id),
                          NoError, FALSE)
              ELSE Result(warp_sync_request_from_next_source(
                              self.sources, self.start_chain_information,
                              Some([header |-> r.header,
                                    chain_information_finality |->
                                        r.chain_information_finality])),
                          NoError, TRUE)
         [] OTHER ->
              Result(warp_sync_request_from_next_source(
                         self.sources, self.start_chain_information,
                         self.previous_verifier_values),
                     "FragmentError", TRUE)

\* Verifier::next
Verifier_next(self) ==
    LET r == WarpSyncVerifierNext(Unwrap(self.verifier))
    IN CASE r.kind = "NotFinished" ->
              Result([self EXCEPT !.verifier = Some(r.verifier)], NoError, FALSE)
         [] r.kind = "Success" ->
              IF self.final_set_of_fragments
              THEN Result(PostVerification("VirtualMachineParamsGet", r.header,
                                           r.chain_information_finality,
                                           self.start_chain_information,
                                           self.sources, self.source_id),
                          NoError, FALSE)
              ELSE Result(WarpSyncRequest(
                              self.source_id, self.sources, self.start_chain_information,
                              Some([header |-> r.header,
                                    chain_information_finality |->
                                        r.chain_information_finality])),
                          NoError, FALSE)
         [] OTHER ->
              Result(warp_sync_request_from_next_source(
                         self.sources, self.start_chain_information,
                         self.previous_verifier_values),
                     "FragmentError", TRUE)

\* Mutant: after a failed runtime query every source may be asked again.
Restart_all_sources(self, error) ==
    Result(warp_sync_request_from_next_source(
               [self.sources EXCEPT !.entries =
                    [k \in DOMAIN self.sources.entries |->
                        [self.sources.entries[k] EXCEPT !.already_tried = FALSE]]],
               self.start_chain_information, None),
           error, TRUE)

\* Mutant: after a failed runtime query the next request continues from the
\* header that was verified.
Restart_from_verified(self, error) ==
    Result(warp_sync_request_from_next_source(
               self.sources, self.start_chain_information,
               Some([header |-> self.header,
                     chain_information_finality |-> self.chain_information_finality])),
           error, TRUE)

Restart(self, error) ==
    Result(warp_sync_request_from_next_source(
               self.sources, self.start_chain_information, None),
           error, TRUE)

Incomplete(self) ==
    [machine |-> self, error |-> NoError, selected |-> FALSE, complete |-> FALSE]

\* GrandpaWarpSync::from_babe_fetch_epoch_query.  query is the sequence of
\* values the babe_fetch_epoch query takes from here on, as the loop resumes it
\* (StorageRoot) or starts the next-epoch query; state is the machine value
\* holding the PostVerificationState and the virtual machine of the query.
\* complete tells that the loop returned exactly at the end of the sequence.
RECURSIVE from_babe_fetch_epoch_query(_, _, _)
from_babe_fetch_epoch_query(query, fetched_current_epoch, state) ==
    IF query = <<>> THEN Incomplete(state)
    ELSE
    LET q == Head(query)
        returned(r) == [r EXCEPT !.complete = (Tail(query) = <<>>)]
    IN CASE q.kind = "Finished" /\ q.ok /\ IsSome(fetched_current_epoch) ->
              LET chain_information ==
                      [finalized_block_header |-> state.header,
                       finality |-> state.chain_information_finality,
                       slots_per_epoch |-> state.start_chain_information.slots_per_epoch,
                       finalized_block_epoch_information |-> fetched_current_epoch,
                       finalized_next_epoch_transition |-> Some(q.epoch)]
              IN IF ValidChainInformation(chain_information)
                 THEN returned(Result(Finished(chain_information, state.runtime,
                                               SlabDrain(state.sources)),
                                      NoError, FALSE))
                 ELSE returned(Restart(state, "InvalidChain"))
         [] q.kind = "Finished" /\ q.ok /\ ~IsSome(fetched_current_epoch) ->
              from_babe_fetch_epoch_query(Tail(query), Some(q.epoch), state)
         [] q.kind = "Finished" /\ ~q.ok ->
              returned(Restart(state, "BabeFetchEpoch"))
         [] q.kind = "StorageGet" ->
              returned(Result([state EXCEPT !.tag = "StorageGet",
                                            !.fetched_current_epoch = fetched_current_epoch],
                              NoError, FALSE))
         [] q.kind = "StorageRoot" ->
              from_babe_fetch_epoch_query(Tail(query), fetched_current_epoch, state)
         [] OTHER ->
              returned(Result([state EXCEPT !.tag = "NextKey",
                                            !.fetched_current_epoch = fetched_current_epoch],
                              NoError, FALSE))

\* VirtualMachineParamsGet::set_virtual_machine_params.  query is the behaviour
\* of the epoch queries run on the new virtual machine.
set_virtual_machine_params(self, code, heap_pages, query) ==
    IF ~IsSome(code) THEN Restart(self, "MissingCode")
    ELSE LET hp == storage_heap_pages_to_value(heap_pages)
         IN IF ~hp.ok THEN Restart(self, "InvalidHeapPages")
            ELSE LET new == HostVmPrototypeNew(Unwrap(code), hp.value)
                 IN IF new.ok
                    THEN from_babe_fetch_epoch_query(
                             query, None, [self EXCEPT !.runtime = Some(new.vm)])
                    ELSE Restart(self, "NewRuntime")

\* Mutant: the resumed query forgets the epoch fetched before the pause.
inject_value_forgets(self, query) ==
    from_babe_fetch_epoch_query(query, None, self)

\* StorageGet::inject_value
inject_value(self, query) ==
    from_babe_fetch_epoch_query(query, self.fetched_current_epoch, self)

\* NextKey::inject_key
inject_key(self, query) ==
    from_babe_fetch_epoch_query(query, self.fetched_current_epoch, self)

\* Mutant: the header and the finality accepted so far are reported.
as_chain_information_progress(self) ==
    IF IsSome(self.previous_verifier_values)
    THEN [self.start_chain_information EXCEPT
             !.finalized_block_header = Unwrap(self.previous_verifier_values).header,
             !.finality = Unwrap(self.previous_verifier_values).chain_information_finality]
    ELSE self.start_chain_information

\* InProgressGrandpaWarpSync::as_chain_information
as_chain_information(self) == self.start_chain_information

(***************************************************************************)
(* The SCALE compact encoding of a usize (src/util.rs).                    *)
(*                                                                         *)
(* A usize is held as its usize::BITS / 8 bytes, least significant byte    *)
(* first, and a byte slice as a sequence of numbers in 0..255 (bytes[i] of *)
(* the code is bytes[i + 1] here).  A build is the width of usize on the   *)
(* target and whether arithmetic overflow checks are compiled in (they are *)
(* in a debug build and are not in a release build).                       *)
(***************************************************************************)
\* Largest N of a big-integer header byte (N << 2 | 0b11) given to the decoder.
MaxN == 6
\* Largest number of bytes that follow the header byte in a decoder input.
MaxBody == 10

Builds == [usize_bits : {32, 64}, overflow_checks : BOOLEAN]

\* usize::from(value), for a value below 2^30.
Usize(build, value) ==
    [i \in 1..(build.usize_bits \div 8) |->
        IF i > 4 THEN 0 ELSE (value \div (256 ^ (i - 1))) % 256]

\* a | b on two bytes.
RECURSIVE BitOr(_, _)
BitOr(a, b) ==
    IF a = 0 THEN b
    ELSE IF b = 0 THEN a
    ELSE (IF a % 2 = 1 \/ b % 2 = 1 THEN 1 ELSE 0) + 2 * BitOr(a \div 2, b \div 2)

\* Mutant: every error is given the kind Eof.
make_error_eof(input, kind) == [kind |-> "Err", input |-> input, code |-> "Eof"]

\* Err(nom::Err::Error(nom::error::make_error(input, kind)))
make_error(input, kind) == [kind |-> "Err", input |-> input, code |-> kind]

\* The loop of the big-integer mode, from byte_index on.  shift is a multiple
\* of 8.  1 << shift overflows when shift >= usize::BITS: a panic with overflow
\* checks, and a shift by shift % usize::BITS without.  checked_mul is None
\* when the byte does not fit below usize::BITS once shifted.
RECURSIVE BigInteger(_, _, _, _, _)
BigInteger(build, bytes, byte_index, out_value, shift) ==
    LET num_bytes == (bytes[1] \div 4) + 4
        masked == shift % build.usize_bits
        room == build.usize_bits - masked
        byte == bytes[byte_index + 1]
    IN IF byte_index > num_bytes
       THEN [kind |-> "Ok",
             rest |-> SubSeq(bytes, num_bytes + 2, Len(bytes)),
             value |-> out_value]
       ELSE IF shift >= build.usize_bits /\ build.overflow_checks
       THEN [kind |-> "Panic"]
       ELSE IF room < 8 /\ byte >= 2 ^ room
       THEN make_error(bytes, "Satisfy")
       ELSE BigInteger(build, bytes, byte_index + 1,
                       [out_value EXCEPT ![(masked \div 8) + 1] = BitOr(@, byte)],
                       shift + 8)

\* nom_scale_compact_usize
nom_scale_compact_usize(build, bytes) ==
    IF bytes = <<>> THEN make_error(bytes, "Eof")
    ELSE CASE bytes[1] % 4 = 0 ->
                [kind |-> "Ok", rest |-> Tail(bytes),
                 value |-> Usize(build, bytes[1] \div 4)]
           [] bytes[1] % 4 = 1 ->
                IF Len(bytes) < 2 THEN make_error(bytes, "Eof")
                ELSE [kind |-> "Ok", rest |-> SubSeq(bytes, 3, Len(bytes)),
                      value |-> Usize(build, bytes[2] * 64 + bytes[1] \div 4)]
           [] bytes[1] % 4 = 2 ->
                IF Len(bytes) < 4 THEN make_error(bytes, "Eof")
                ELSE IF build.usize_bits < 32 THEN make_error(bytes, "Satisfy")
                ELSE [kind |-> "Ok", rest |-> SubSeq(bytes, 5, Len(bytes)),
                      value |-> Usize(build, bytes[4] * 4194304 + bytes[3] * 16384
                                                 + bytes[2] * 64 + bytes[1] \div 4)]
           [] bytes[1] % 4 = 3 ->
                LET num_bytes == (bytes[1] \div 4) + 4
                IN IF Len(bytes) < num_bytes + 1 THEN make_error(bytes, "Eof")
                   ELSE IF bytes[num_bytes + 1] = 0 THEN make_error(bytes, "Satisfy")
                   ELSE BigInteger(build, bytes, 1, Usize(build, 0), 0)

\* Mutant: the header of the big-integer mode holds the number of bytes.
encode_scale_compact_usize_len(value) ==
    LET below_2_30 == \A i \in 1..Len(value) :
                          /\ i > 4 => value[i] = 0
                          /\ i = 4 => value[i] < 64
        low == value[1] + 256 * value[2] + 65536 * value[3] + 16777216 * (value[4] % 64)
        top == CHOOSE i \in 1..Len(value) :
                   value[i] # 0 /\ \A j \in (i + 1)..Len(value) : value[j] = 0
    IN IF below_2_30 /\ low < 64 THEN <<low * 4>>
       ELSE IF below_2_30 /\ low < 16384
       THEN <<(low % 64) * 4 + 1, (low \div 64) % 256>>
       ELSE IF below_2_30
       THEN <<(low % 64) * 4 + 2, (low \div 64) % 256,
              (low \div 16384) % 256, (low \div 4194304) % 256>>
       ELSE <<top * 4 + 3>> \o SubSeq(value, 1, top)

\* encode_scale_compact_usize.  In the last mode the loop pushes the bytes of
\* value up to its highest non-zero byte.
encode_scale_compact_usize(value) ==
    LET below_2_30 == \A i \in 1..Len(value) :
                          /\ i > 4 => value[i] = 0
                          /\ i = 4 => value[i] < 64
        low == value[1] + 256 * value[2] + 65536 * value[3] + 16777216 * (value[4] % 64)
        top == CHOOSE i \in 1..Len(value) :
                   value[i] # 0 /\ \A j \in (i + 1)..Len(value) : value[j] = 0
    IN IF below_2_30 /\ low < 64 THEN <<low * 4>>
       ELSE IF below_2_30 /\ low < 16384
       THEN <<(low % 64) * 4 + 1, (low \div 64) % 256>>
       ELSE IF below_2_30
       THEN <<(low % 64) * 4 + 2, (low \div 64) % 256,
              (low \div 16384) % 256, (low \div 4194304) % 256>>
       ELSE <<(top - 4) * 4 + 3>> \o SubSeq(value, 1, top)

\* Byte strings of a given length: a repeated byte, then a last byte.
Bodies(lengths) ==
    {[i \in 1..len |-> IF i = len THEN last ELSE fill] :
        len \in lengths, fill \in {0, 255}, last \in {0, 1, 128, 255}}

\* What the decoder is given: a header byte of every mode, then a body.
Inputs ==
    {<<>>} \cup
    {<<header>> \o body :
        header \in {0, 252, 1, 253, 2, 254} \cup {n * 4 + 3 : n \in 0..MaxN},
        body \in Bodies(0..MaxBody)}

\* What the encoder is given: the values at the limits of the modes, and
\* values of every length in bytes.
Values(build) ==
    {Usize(build, n) : n \in {0, 1, 63, 64, 16383, 16384, 1073741823, 1073741824}}
    \cup {body \o [i \in 1..(build.usize_bits \div 8 - Len(body)) |-> 0] :
             body \in Bodies(1..(build.usize_bits \div 8))}

VARIABLE codec      \* a use of the codec: the build, the value, the bytes, the result

InitCodec ==
    \E build \in Builds :
        \/ \E value \in Values(build) :
              codec = [build |-> build, pc |-> "encode", value |-> Some(value),
                       bytes |-> <<>>, result |-> None]
        \/ \E bytes \in Inputs :
              codec = [build |-> build, pc |-> "decode", value |-> None,
                       bytes |-> bytes, result |-> None]

CodecAtRest == codec = None

(***************************************************************************)
(* State of the runtime service (its behaviour is defined further down).   *)
(***************************************************************************)
VARIABLES
    chain,                  \* storage of the blocks announced by the sync service
    blocks_stream,          \* headers announced and not yet taken by the task
    stream_finished,        \* the best-block stream has ended
    receivers,              \* number of NotificationsReceiver handed out
    delivered,              \* per receiver, the runtime version last handed to its holder
    lock,                   \* holder of the latest_known_runtime mutex
    latest_known_runtime,   \* the LatestKnownRuntime behind the mutex
    bg_pc,                  \* position of the background task
    new_best_block,         \* background task: header being processed
    code_query_result,      \* background task: result of the storage query
    best_near_head_of_chain,    \* background task: heuristic read from the sync service
    runtime_matches_best_block, \* background task flag
    call_pc,                \* position of the task running a runtime call
    call,                   \* locals of recent_best_block_runtime_call_inner
    iter,                   \* what the background task did in its current iteration
    last_best_notified      \* last header sent to a best-block subscriber

rtVars ==
    <<chain, blocks_stream, stream_finished, receivers, delivered, lock,
      latest_known_runtime, bg_pc, new_best_block, code_query_result, best_near_head_of_chain,
      runtime_matches_best_block, call_pc, call, iter, last_best_notified>>

bgLocals == <<new_best_block, code_query_result, best_near_head_of_chain>>
envVars == <<chain, blocks_stream, stream_finished, receivers>>
callVars == <<call_pc, call>>
bgVars == <<bg_pc, new_best_block, code_query_result, best_near_head_of_chain,
            runtime_matches_best_block, iter>>

(***************************************************************************)
(* State of the warp-sync machine and its transitions.                     *)
(***************************************************************************)
VARIABLES
    warp_sync,        \* the GrandpaWarpSync value the API user holds
    error,            \* the error returned by the last transition
    selected,         \* the last transition ran source selection
    user_datas,       \* number of add_source calls made so far
    accepted,         \* (header, finality) of the last batch accepted as progress
    batch_failed,     \* a fragment failed since the last accepted batch
    op                \* the last call made by the API user

warpVars == <<warp_sync, error, selected, user_datas, accepted, batch_failed, op>>

vars == <<warpVars, rtVars, codec>>

\* A call of the API user: the method, the variant it was called on, the
\* SourceId it was given (remove_source) or has returned (add_source),
\* whether that id was the source of the request in progress, and the user
\* data it was given (add_source) or has returned (remove_source).
Op(name, id, user_data) ==
    [name |-> name,
     from |-> warp_sync.tag,
     id |-> id,
     current |-> id # NoSource /\ id = warp_sync.source_id,
     user_data |-> user_data]

NoOp ==
    [name |-> "grandpa_warp_sync", from |-> "", id |-> NoSource, current |-> FALSE, user_data |-> 0]

InitWarp ==
    /\ warp_sync \in {grandpa_warp_sync(config) : config \in Anchors}
    /\ error = NoError
    /\ selected = FALSE
    /\ user_datas = 0
    /\ accepted = None
    /\ batch_failed = FALSE
    /\ op = NoOp

\* The caller takes what a transition returned.
Returned(r) ==
    /\ r.complete
    /\ warp_sync' = r.machine
    /\ error' = r.error
    /\ selected' = r.selected

\* add_source(user_data), on any in-progress state, by an API user that adds
\* no more than max sources.
AddSourceUpTo(max) ==
    /\ UNCHANGED <<rtVars, codec>>
    /\ warp_sync.tag \in InProgressTags
    /\ user_datas < max
    /\ user_datas' = user_datas + 1
    /\ warp_sync' = IF warp_sync.tag = "WaitingForSources"
                    THEN WaitingForSources_add_source(warp_sync, user_datas + 1)
                    ELSE add_source(warp_sync, user_datas + 1)
    /\ error' = NoError
    /\ selected' = FALSE
    /\ op' = Op("add_source", SlabVacantKey(warp_sync.sources), user_datas + 1)
    /\ UNCHANGED <<accepted, batch_failed>>

AddSource == AddSourceUpTo(MaxSources)

AddManySources == AddSourceUpTo(MaxInsertions)

\* remove_source(to_remove), on any in-progress state.
RemoveSource ==
    /\ UNCHANGED <<rtVars, codec>>
    /\ warp_sync.tag \in InProgressTags
    /\ \E to_remove \in SlabKeys(warp_sync.sources) :
          LET r == remove_source(warp_sync, to_remove)
          IN /\ Returned(r)
             /\ op' = Op("remove_source", to_remove, source_user_data(warp_sync, to_remove))
    /\ UNCHANGED <<user_datas, accepted, batch_failed>>

\* WarpSyncRequest::handle_response(response), the response being one of
\* responses.
HandleResponseIn(responses) ==
    /\ UNCHANGED <<rtVars, codec>>
    /\ warp_sync.tag = "WarpSyncRequest"
    /\ \E response \in responses :
          /\ IsSome(response) =>
                LET seed == IF IsSome(warp_sync.previous_verifier_values)
                            THEN Unwrap(warp_sync.previous_verifier_values)
                                     .chain_information_finality
                            ELSE warp_sync.start_chain_information.finality
                IN seed.after_finalized_block_authorities_set_id
                       + Len(Unwrap(response).fragments) <= MaxSetId
          /\ Returned(handle_response(warp_sync, response))
    /\ op' = Op("handle_response", NoSource, 0)
    /\ UNCHANGED <<user_datas, accepted, batch_failed>>

HandleResponse == HandleResponseIn({None} \cup {Some(r) : r \in Responses})

\* handle_response(None): the request to the source has failed.
RequestFailed == HandleResponseIn({None})

\* Verifier::next()
VerifierNext ==
    /\ UNCHANGED <<rtVars, codec>>
    /\ warp_sync.tag = "Verifier"
    /\ LET r == Verifier_next(warp_sync)
           inner == WarpSyncVerifierNext(Unwrap(warp_sync.verifier))
       IN /\ Returned(r)
          /\ accepted' =
                CASE inner.kind = "Success" /\ ~warp_sync.final_set_of_fragments ->
                         Some([header |-> inner.header,
                               chain_information_finality |->
                                   inner.chain_information_finality])
                  [] inner.kind = "Success" /\ warp_sync.final_set_of_fragments -> None
                  [] OTHER -> accepted
          /\ batch_failed' =
                CASE inner.kind = "Success" -> FALSE
                  [] inner.kind = "Err" -> TRUE
                  [] OTHER -> batch_failed
    /\ op' = Op("next", NoSource, 0)
    /\ UNCHANGED user_datas

\* VirtualMachineParamsGet::set_virtual_machine_params(code, heap_pages, _)
SetVirtualMachineParams ==
    /\ UNCHANGED <<rtVars, codec>>
    /\ warp_sync.tag = "VirtualMachineParamsGet"
    /\ \E code \in {None, Some("B0"), Some("Bad")},
          heap_pages \in {None} \cup {Some(h) : h \in HeapPagesValues} :
          IF IsSome(code) /\ CodeCompiles(Unwrap(code))
             /\ storage_heap_pages_to_value(heap_pages).ok
          THEN \E query \in QueryRuns :
                  Returned(set_virtual_machine_params(warp_sync, code, heap_pages, query))
          ELSE Returned(set_virtual_machine_params(warp_sync, code, heap_pages, <<>>))
    /\ op' = Op("set_virtual_machine_params", NoSource, 0)
    /\ UNCHANGED <<user_datas, accepted, batch_failed>>

\* StorageGet::inject_value(value)
InjectValue ==
    /\ UNCHANGED <<rtVars, codec>>
    /\ warp_sync.tag = "StorageGet"
    /\ \E query \in QueryRuns : Returned(inject_value(warp_sync, query))
    /\ op' = Op("inject_value", NoSource, 0)
    /\ UNCHANGED <<user_datas, accepted, batch_failed>>

\* NextKey::inject_key(key)
InjectKey ==
    /\ UNCHANGED <<rtVars, codec>>
    /\ warp_sync.tag = "NextKey"
    /\ \E query \in QueryRuns : Returned(inject_key(warp_sync, query))
    /\ op' = Op("inject_key", NoSource, 0)
    /\ UNCHANGED <<user_datas, accepted, batch_failed>>

NextWarp ==
    \/ AddSource
    \/ RemoveSource
    \/ HandleResponse
    \/ VerifierNext
    \/ SetVirtualMachineParams
    \/ InjectValue
    \/ InjectKey



(***************************************************************************)
(* The runtime service.                                                    *)
(*                                                                         *)
(* The sync service announces best blocks; block b of the chain variable   *)
(* is the b-th block it announced and the genesis block is block 0.  A     *)
(* SCALE-encoded header is identified by the index of its block.           *)
(***************************************************************************)
\* Number of best blocks the sync service announces over a run.
MaxBlocks == 1
\* Number of subscribe_best / subscribe_runtime_version calls over a run.
MaxSubscribers == 2
\* Number of blocks announced over a run that follows successive runtimes.
MaxAnnounced == 2
GenesisBlock == 0

\* header::hash_from_scale_encoded_header
hash_from_scale_encoded_header(header) == <<"hash", header>>

\* header::decode: the fields of the header the service reads.
header_decode(header) ==
    [number |-> header, state_root |-> <<"root", header>>]

\* The :code and :heappages entries of a block's storage.
Storage(code, heap_pages) == [code |-> code, heap_pages |-> heap_pages]

BlockStorages ==
    {Storage(Some(c), None) : c \in {"B0", "B2", "Bad"}}
    \cup {Storage(Some("B0"), Some(HeapPagesValid))}

\* sync_service.is_near_head_of_chain_heuristic(): the answer is opaque to the
\* runtime service, which only stores it.
is_near_head_of_chain_heuristic == BOOLEAN

\* The genesis storage of the chain specification.
GenesisStorage == Storage(Some("B0"), None)

\* Runtime value stored in LatestKnownRuntime::runtime: Result<SuccessfulRuntime, ()>.
RuntimeErr ==
    [ok |-> FALSE, metadata |-> None, runtime_spec |-> 0, virtual_machine |-> None]

RuntimeOk(metadata, runtime_spec, vm) ==
    [ok |-> TRUE, metadata |-> metadata, runtime_spec |-> runtime_spec,
     virtual_machine |-> Some(vm)]

\* SuccessfulRuntime::from_params
SuccessfulRuntime_from_params(code, heap_pages) ==
    IF ~IsSome(code) THEN RuntimeErr
    ELSE LET hp == storage_heap_pages_to_value(heap_pages)
         IN IF ~hp.ok THEN RuntimeErr
            ELSE LET new == HostVmPrototypeNew(Unwrap(code), hp.value)
                 IN IF ~new.ok THEN RuntimeErr
                    ELSE RuntimeOk(None, SpecVersionOf(Unwrap(code)), new.vm)

\* The bytes a virtual machine returns from a call; they depend on the
\* runtime that has run it.
ReturnValue(vm) == <<"value", vm>>

\* metadata::remove_metadata_length_prefix, on a value it accepts.
remove_metadata_length_prefix(value) == <<"metadata", value[2]>>

\* metadata::query_metadata on the genesis runtime.
MetadataOf(vm) == remove_metadata_length_prefix(ReturnValue(vm))

\* RuntimeService::new: the LatestKnownRuntime built from the genesis storage.
GenesisLatestKnownRuntime(near_head) ==
    LET runtime == SuccessfulRuntime_from_params(GenesisStorage.code,
                                                 GenesisStorage.heap_pages)
    IN [runtime |-> [runtime EXCEPT
                        !.metadata = Some(MetadataOf(Unwrap(runtime.virtual_machine)))],
        runtime_code |-> GenesisStorage.code,
        heap_pages |-> GenesisStorage.heap_pages,
        runtime_block_hash |-> hash_from_scale_encoded_header(GenesisBlock),
        runtime_block_height |-> 0,
        runtime_block_state_root |-> header_decode(GenesisBlock).state_root,
        runtime_version_subscriptions |-> <<>>,
        best_blocks_subscriptions |-> <<>>,
        best_near_head_of_chain |-> near_head]

\* Mutant: the last element is removed whatever the index.
swap_remove_pops(vec, index) == SubSeq(vec, 1, Len(vec) - 1)

\* Vec::swap_remove
swap_remove(vec, index) ==
    IF index = Len(vec) THEN SubSeq(vec, 1, Len(vec) - 1)
    ELSE [SubSeq(vec, 1, Len(vec) - 1) EXCEPT ![index] = vec[Len(vec)]]

\* The notification loop over a subscription list: for index in (0..len).rev(),
\* swap_remove(index), send, and push the sender back if the send succeeded.
\* open[s] tells whether the receiver of sender s is still alive.  sent lists
\* the senders an item was sent on, in order, with the outcome of the send.
RECURSIVE NotifyLoop(_, _, _)
NotifyLoop(subscriptions, index, open) ==
    IF index = 0 THEN [subscriptions |-> subscriptions, sent |-> <<>>]
    ELSE LET subscription == subscriptions[index]
             removed == swap_remove(subscriptions, index)
             after == IF open[subscription] THEN Append(removed, subscription)
                      ELSE removed
             rest == NotifyLoop(after, index - 1, open)
         IN [subscriptions |-> rest.subscriptions,
             sent |-> <<[sub |-> subscription, ok |-> open[subscription]]>> \o rest.sent]

Notify(subscriptions, open) == NotifyLoop(subscriptions, Len(subscriptions), open)

\* runtime.as_ref().map(|r| r.runtime_spec.clone()).map_err(|&()| ())
VersionOf(runtime) == IF runtime.ok THEN <<"Ok", runtime.runtime_spec>> ELSE <<"Err">>

\* No receiver has been handed a runtime version.
NothingDelivered == [subscription \in 1..MaxSubscribers |-> None]

\* The versions the receivers hold after a notification pass: the item sent,
\* for the subscriptions whose send has succeeded; a subscription whose send
\* has failed has no receiver any more.
Deliver(received, sent, version) ==
    [subscription \in 1..MaxSubscribers |->
        IF \E i \in 1..Len(sent) : sent[i].sub = subscription /\ sent[i].ok
        THEN Some(version)
        ELSE IF \E i \in 1..Len(sent) : sent[i].sub = subscription
             THEN None
             ELSE received[subscription]]

NoResult == [kind |-> "None", values |-> <<>>, network_problem |-> FALSE]
NoIter == [acquired |-> FALSE, runtime_code |-> None, heap_pages |-> None, log |-> <<>>]
NoCall ==
    [spec_version |-> 0, runtime_block_hash |-> <<>>, runtime_block_height |-> 0,
     runtime_block_state_root |-> <<>>, call_proof |-> <<>>, virtual_machine |-> None,
     retried |-> FALSE, started_after |-> None, metadata |-> FALSE,
     return_value |-> None, result |-> None]

Event(kind, sub, ok, value) == [kind |-> kind, sub |-> sub, ok |-> ok, value |-> value]

InitRuntime ==
    /\ chain = <<>>
    /\ blocks_stream = <<GenesisBlock>>
    /\ stream_finished = FALSE
    /\ receivers = 0
    /\ delivered = NothingDelivered
    /\ lock = "none"
    /\ latest_known_runtime \in {GenesisLatestKnownRuntime(n) : n \in is_near_head_of_chain_heuristic}
    /\ bg_pc = "next"
    /\ new_best_block = None
    /\ code_query_result = NoResult
    /\ best_near_head_of_chain = FALSE
    /\ runtime_matches_best_block = FALSE
    /\ call_pc = "idle"
    /\ call = NoCall
    /\ iter = NoIter
    /\ last_best_notified = None

(***************************************************************************)
(* The sync service and the subscribers.                                   *)
(***************************************************************************)
\* The process runs until a panic aborts it.
Running == call_pc # "aborted"

\* The sync service announces a new best block, over a run of no more than
\* max blocks.
SyncNewBestUpTo(max) ==
    /\ Running
    /\ UNCHANGED <<warpVars, codec, delivered>>
    /\ ~stream_finished
    /\ Len(chain) < max
    /\ \E storage \in BlockStorages :
          /\ chain' = Append(chain, storage)
          /\ blocks_stream' = Append(blocks_stream, Len(chain) + 1)
    /\ UNCHANGED <<stream_finished, receivers, lock, latest_known_runtime, last_best_notified>>
    /\ UNCHANGED bgVars
    /\ UNCHANGED callVars

SyncNewBest == SyncNewBestUpTo(MaxBlocks)

SyncManyBest == SyncNewBestUpTo(MaxAnnounced)

\* The best-block stream of the sync service ends.
SyncStreamEnd ==
    /\ Running
    /\ UNCHANGED <<warpVars, codec, delivered>>
    /\ ~stream_finished
    /\ stream_finished' = TRUE
    /\ UNCHANGED <<chain, blocks_stream, receivers, lock, latest_known_runtime,
                   last_best_notified>>
    /\ UNCHANGED bgVars
    /\ UNCHANGED callVars

\* RuntimeService::subscribe_best
subscribe_best(lkr, tx) ==
    [lkr EXCEPT !.best_blocks_subscriptions = Append(@, tx)]

\* RuntimeService::subscribe_runtime_version
subscribe_runtime_version(lkr, tx) ==
    [lkr EXCEPT !.runtime_version_subscriptions = Append(@, tx)]

SubscribeBest ==
    /\ Running
    /\ UNCHANGED <<warpVars, codec, delivered>>
    /\ lock = "none"
    /\ receivers < MaxSubscribers
    /\ receivers' = receivers + 1
    /\ latest_known_runtime' = subscribe_best(latest_known_runtime, receivers + 1)
    /\ UNCHANGED <<chain, blocks_stream, stream_finished, lock, last_best_notified>>
    /\ UNCHANGED bgVars
    /\ UNCHANGED callVars

\* Mutant: the list is changed without the mutex.
SubscribeRuntimeVersion_unlocked ==
    /\ Running
    /\ UNCHANGED <<warpVars, codec>>
    /\ lock # "call"
    /\ bg_pc = "notify_version" \/ lock = "none"
    /\ receivers < MaxSubscribers
    /\ receivers' = receivers + 1
    /\ latest_known_runtime' =
          subscribe_runtime_version(latest_known_runtime, receivers + 1)
    /\ delivered' = [delivered EXCEPT
                        ![receivers + 1] = Some(VersionOf(latest_known_runtime'.runtime))]
    /\ UNCHANGED <<chain, blocks_stream, stream_finished, lock, last_best_notified>>
    /\ UNCHANGED bgVars
    /\ UNCHANGED callVars

\* RuntimeService::subscribe_runtime_version, whole: the sender is pushed and
\* the version is read under one hold of the mutex, and the version is
\* returned with the receiver.
SubscribeRuntimeVersion ==
    /\ Running
    /\ UNCHANGED <<warpVars, codec>>
    /\ lock = "none"
    /\ receivers < MaxSubscribers
    /\ receivers' = receivers + 1
    /\ latest_known_runtime' =
          subscribe_runtime_version(latest_known_runtime, receivers + 1)
    /\ delivered' = [delivered EXCEPT
                        ![receivers + 1] = Some(VersionOf(latest_known_runtime'.runtime))]
    /\ UNCHANGED <<chain, blocks_stream, stream_finished, lock, last_best_notified>>
    /\ UNCHANGED bgVars
    /\ UNCHANGED callVars

\* Which receivers are still alive when a notification pass sends: a
\* receiver can be dropped at any time, which only a send observes.
Open == [1..receivers -> BOOLEAN]

(***************************************************************************)
(* The background task started by start_background_task.                   *)
(***************************************************************************)
Log(event) == [iter EXCEPT !.log = Append(@, event)]

\* After the 3 second delay, blocks_stream.next().await: a header, or the end
\* of the stream.
BgNext ==
    /\ Running
    /\ UNCHANGED <<warpVars, codec, delivered>>
    /\ bg_pc = "next"
    /\ IF blocks_stream # <<>>
       THEN /\ new_best_block' = Some(Head(blocks_stream))
            /\ blocks_stream' = Tail(blocks_stream)
            /\ bg_pc' = "debounce"
       ELSE /\ stream_finished
            /\ bg_pc' = "exited"
            /\ UNCHANGED <<new_best_block, blocks_stream>>
    /\ UNCHANGED <<code_query_result, best_near_head_of_chain, runtime_matches_best_block,
                   iter, lock, latest_known_runtime, last_best_notified, chain,
                   stream_finished, receivers>>
    /\ UNCHANGED callVars

\* Mutant: the headers that are ready are taken and the first one is kept.
BgDebounce_keeps_first ==
    /\ Running
    /\ UNCHANGED <<warpVars, codec, delivered>>
    /\ bg_pc = "debounce"
    /\ blocks_stream' = <<>>
    /\ bg_pc' = "download"
    /\ UNCHANGED <<new_best_block, code_query_result, best_near_head_of_chain,
                   runtime_matches_best_block,
                   iter, lock, latest_known_runtime, last_best_notified, chain,
                   stream_finished, receivers>>
    /\ UNCHANGED callVars

\* The 500 ms delay, then the headers that are ready are taken without
\* waiting and the last one is kept.
BgDebounce ==
    /\ Running
    /\ UNCHANGED <<warpVars, codec, delivered>>
    /\ bg_pc = "debounce"
    /\ new_best_block' = IF blocks_stream # <<>>
                         THEN Some(blocks_stream[Len(blocks_stream)])
                         ELSE new_best_block
    /\ blocks_stream' = <<>>
    /\ bg_pc' = "download"
    /\ UNCHANGED <<code_query_result, best_near_head_of_chain, runtime_matches_best_block,
                   iter, lock, latest_known_runtime, last_best_notified, chain,
                   stream_finished, receivers>>
    /\ UNCHANGED callVars

\* The storage of the block a header belongs to.
BlockStorage(header) == IF header = GenesisBlock THEN GenesisStorage ELSE chain[header]

\* What sync_service.storage_query(hash, state_root, [":code", ":heappages"])
\* can answer: the two values in key order, or an error.
StorageQueryResults(header) ==
    {[kind |-> "Ok",
      values |-> <<BlockStorage(header).code, BlockStorage(header).heap_pages>>,
      network_problem |-> FALSE]}
    \cup {[kind |-> "Err", values |-> <<>>, network_problem |-> n] : n \in BOOLEAN}

\* storage_query(..).await, then is_near_head_of_chain_heuristic().await.
BgDownload ==
    /\ Running
    /\ UNCHANGED <<warpVars, codec, delivered>>
    /\ bg_pc = "download"
    /\ code_query_result' \in StorageQueryResults(Unwrap(new_best_block))
    /\ best_near_head_of_chain' \in is_near_head_of_chain_heuristic
    /\ bg_pc' = "lock"
    /\ UNCHANGED <<new_best_block, runtime_matches_best_block, iter, lock,
                   latest_known_runtime, last_best_notified>>
    /\ UNCHANGED envVars
    /\ UNCHANGED callVars

\* latest_known_runtime.lock().await
BgLock ==
    /\ Running
    /\ UNCHANGED <<warpVars, codec, delivered>>
    /\ bg_pc = "lock"
    /\ lock = "none"
    /\ lock' = "background"
    /\ bg_pc' = "notify_best"
    /\ iter' = [acquired |-> TRUE,
                runtime_code |-> latest_known_runtime.runtime_code,
                heap_pages |-> latest_known_runtime.heap_pages,
                log |-> <<>>]
    /\ UNCHANGED <<runtime_matches_best_block, latest_known_runtime, last_best_notified>>
    /\ UNCHANGED bgLocals
    /\ UNCHANGED envVars
    /\ UNCHANGED callVars

Events(kind, sent, value) ==
    [i \in 1..Len(sent) |-> Event(kind, sent[i].sub, sent[i].ok, value)]

BgNotifyBest_unlocks ==
    /\ Running
    /\ UNCHANGED <<warpVars, codec, delivered>>
    /\ bg_pc = "notify_best"
    /\ \E open \in Open :
       LET pass == Notify(latest_known_runtime.best_blocks_subscriptions, open)
       IN /\ latest_known_runtime' =
                [latest_known_runtime EXCEPT
                    !.best_blocks_subscriptions = pass.subscriptions,
                    !.best_near_head_of_chain = best_near_head_of_chain]
          /\ iter' = [iter EXCEPT !.log = @ \o Events("best", pass.sent, Unwrap(new_best_block))]
          /\ last_best_notified' =
                IF \E i \in 1..Len(pass.sent) : pass.sent[i].ok
                THEN new_best_block ELSE last_best_notified
    /\ bg_pc' = "unpack"
    /\ lock' = "none"
    /\ UNCHANGED runtime_matches_best_block
    /\ UNCHANGED bgLocals
    /\ UNCHANGED envVars
    /\ UNCHANGED callVars

\* The best-block notification loop, shrink_to_fit, and the update of
\* best_near_head_of_chain.
BgNotifyBest ==
    /\ Running
    /\ UNCHANGED <<warpVars, codec, delivered>>
    /\ bg_pc = "notify_best"
    /\ \E open \in Open :
       LET pass == Notify(latest_known_runtime.best_blocks_subscriptions, open)
       IN /\ latest_known_runtime' =
                [latest_known_runtime EXCEPT
                    !.best_blocks_subscriptions = pass.subscriptions,
                    !.best_near_head_of_chain = best_near_head_of_chain]
          /\ iter' = [iter EXCEPT !.log = @ \o Events("best", pass.sent, Unwrap(new_best_block))]
          /\ last_best_notified' =
                IF \E i \in 1..Len(pass.sent) : pass.sent[i].ok
                THEN new_best_block ELSE last_best_notified
    /\ bg_pc' = "unpack"
    /\ UNCHANGED <<runtime_matches_best_block, lock>>
    /\ UNCHANGED bgLocals
    /\ UNCHANGED envVars
    /\ UNCHANGED callVars

\* let new_heap_pages = results.pop(); let new_code = results.pop();
new_heap_pages == code_query_result.values[2]
new_code == code_query_result.values[1]

\* Mutant: the block of the runtime is updated before the result of the
\* storage query is looked at.
BgUnpack_block_first ==
    /\ Running
    /\ UNCHANGED <<warpVars, codec, delivered>>
    /\ bg_pc = "unpack"
    /\ latest_known_runtime' =
          [latest_known_runtime EXCEPT
              !.runtime_block_hash =
                  hash_from_scale_encoded_header(Unwrap(new_best_block)),
              !.runtime_block_height = header_decode(Unwrap(new_best_block)).number,
              !.runtime_block_state_root =
                  header_decode(Unwrap(new_best_block)).state_root]
    /\ IF code_query_result.kind = "Err"
       THEN /\ bg_pc' = "end"
            /\ iter' = Log(Event(IF code_query_result.network_problem THEN "debug"
                                 ELSE "warn", 0, TRUE, Unwrap(new_best_block)))
       ELSE /\ bg_pc' = "compare"
            /\ UNCHANGED iter
    /\ UNCHANGED <<runtime_matches_best_block, lock, last_best_notified>>
    /\ UNCHANGED bgLocals
    /\ UNCHANGED envVars
    /\ UNCHANGED callVars

\* Mutant: a failed storage query ends the task.
BgUnpack_fatal ==
    /\ Running
    /\ UNCHANGED <<warpVars, codec, delivered>>
    /\ bg_pc = "unpack"
    /\ IF code_query_result.kind = "Err"
       THEN /\ bg_pc' = "exited"
            /\ iter' = Log(Event(IF code_query_result.network_problem THEN "debug"
                                 ELSE "warn", 0, TRUE, Unwrap(new_best_block)))
            /\ UNCHANGED latest_known_runtime
       ELSE /\ bg_pc' = "compare"
            /\ latest_known_runtime' =
                  [latest_known_runtime EXCEPT
                      !.runtime_block_hash =
                          hash_from_scale_encoded_header(Unwrap(new_best_block)),
                      !.runtime_block_height = header_decode(Unwrap(new_best_block)).number,
                      !.runtime_block_state_root =
                          header_decode(Unwrap(new_best_block)).state_root]
            /\ UNCHANGED iter
    /\ UNCHANGED <<runtime_matches_best_block, lock, last_best_notified>>
    /\ UNCHANGED bgLocals
    /\ UNCHANGED envVars
    /\ UNCHANGED callVars

\* match code_query_result: an error is logged and the loop continues;
\* otherwise runtime_block_hash, runtime_block_height and
\* runtime_block_state_root are set to those of the new best block.
BgUnpack ==
    /\ Running
    /\ UNCHANGED <<warpVars, codec, delivered>>
    /\ bg_pc = "unpack"
    /\ IF code_query_result.kind = "Err"
       THEN /\ bg_pc' = "end"
            /\ iter' = Log(Event(IF code_query_result.network_problem THEN "debug"
                                 ELSE "warn", 0, TRUE, Unwrap(new_best_block)))
            /\ UNCHANGED latest_known_runtime
       ELSE /\ bg_pc' = "compare"
            /\ latest_known_runtime' =
                  [latest_known_runtime EXCEPT
                      !.runtime_block_hash =
                          hash_from_scale_encoded_header(Unwrap(new_best_block)),
                      !.runtime_block_height = header_decode(Unwrap(new_best_block)).number,
                      !.runtime_block_state_root =
                          header_decode(Unwrap(new_best_block)).state_root]
            /\ UNCHANGED iter
    /\ UNCHANGED <<runtime_matches_best_block, lock, last_best_notified>>
    /\ UNCHANGED bgLocals
    /\ UNCHANGED envVars
    /\ UNCHANGED callVars

RuntimeUnchanged_never == FALSE

RuntimeUnchanged_code_only == new_code = latest_known_runtime.runtime_code

\* new_code == runtime_code && new_heap_pages == heap_pages
RuntimeUnchanged ==
    /\ new_code = latest_known_runtime.runtime_code
    /\ new_heap_pages = latest_known_runtime.heap_pages

\* `continue` if there was no change in :code and :heappages; otherwise the
\* upgrade is logged if the runtime was expected to match the best block.
BgCompare ==
    /\ Running
    /\ UNCHANGED <<warpVars, codec, delivered>>
    /\ bg_pc = "compare"
    /\ IF RuntimeUnchanged
       THEN /\ runtime_matches_best_block' = TRUE
            /\ bg_pc' = "end"
            /\ UNCHANGED iter
       ELSE /\ iter' = IF runtime_matches_best_block
                       THEN Log(Event("info", 0, TRUE, Unwrap(new_best_block)))
                       ELSE iter
            /\ bg_pc' = "rebuild"
            /\ UNCHANGED runtime_matches_best_block
    /\ UNCHANGED <<lock, latest_known_runtime, last_best_notified>>
    /\ UNCHANGED bgLocals
    /\ UNCHANGED envVars
    /\ UNCHANGED callVars

\* Mutant: the bytes are stored only when the runtime was built.
BgRebuild_keeps_bytes ==
    /\ Running
    /\ UNCHANGED <<warpVars, codec, delivered>>
    /\ bg_pc = "rebuild"
    /\ runtime_matches_best_block' = TRUE
    /\ latest_known_runtime' =
          IF SuccessfulRuntime_from_params(new_code, new_heap_pages).ok
          THEN [latest_known_runtime EXCEPT
                   !.runtime_code = new_code,
                   !.heap_pages = new_heap_pages,
                   !.runtime = SuccessfulRuntime_from_params(new_code, new_heap_pages)]
          ELSE [latest_known_runtime EXCEPT !.runtime = RuntimeErr]
    /\ iter' = Log(Event("rebuild", 0, TRUE, Unwrap(new_best_block)))
    /\ bg_pc' = "notify_version"
    /\ UNCHANGED <<lock, last_best_notified>>
    /\ UNCHANGED bgLocals
    /\ UNCHANGED envVars
    /\ UNCHANGED callVars

\* Mutant: the runtime is replaced and the cached metadata is kept.
BgRebuild_keeps_metadata ==
    /\ Running
    /\ UNCHANGED <<warpVars, codec, delivered>>
    /\ bg_pc = "rebuild"
    /\ runtime_matches_best_block' = TRUE
    /\ latest_known_runtime' =
          LET runtime == SuccessfulRuntime_from_params(new_code, new_heap_pages)
          IN [latest_known_runtime EXCEPT
                 !.runtime_code = new_code,
                 !.heap_pages = new_heap_pages,
                 !.runtime = IF runtime.ok
                             THEN [runtime EXCEPT
                                      !.metadata =
                                          IF latest_known_runtime.runtime.ok
                                          THEN latest_known_runtime.runtime.metadata
                                          ELSE None]
                             ELSE runtime]
    /\ iter' = Log(Event("rebuild", 0, TRUE, Unwrap(new_best_block)))
    /\ bg_pc' = "notify_version"
    /\ UNCHANGED <<lock, last_best_notified>>
    /\ UNCHANGED bgLocals
    /\ UNCHANGED envVars
    /\ UNCHANGED callVars

\* runtime_code, heap_pages and runtime are replaced.
BgRebuild ==
    /\ Running
    /\ UNCHANGED <<warpVars, codec, delivered>>
    /\ bg_pc = "rebuild"
    /\ runtime_matches_best_block' = TRUE
    /\ latest_known_runtime' =
          [latest_known_runtime EXCEPT
              !.runtime_code = new_code,
              !.heap_pages = new_heap_pages,
              !.runtime = SuccessfulRuntime_from_params(new_code, new_heap_pages)]
    /\ iter' = Log(Event("rebuild", 0, TRUE, Unwrap(new_best_block)))
    /\ bg_pc' = "notify_version"
    /\ UNCHANGED <<lock, last_best_notified>>
    /\ UNCHANGED bgLocals
    /\ UNCHANGED envVars
    /\ UNCHANGED callVars

\* What is sent to the runtime-version subscribers.
\* The runtime-version notification loop and shrink_to_fit.
BgNotifyVersion ==
    /\ Running
    /\ UNCHANGED <<warpVars, codec>>
    /\ bg_pc = "notify_version"
    /\ \E open \in Open :
       LET pass == Notify(latest_known_runtime.runtime_version_subscriptions, open)
       IN /\ latest_known_runtime' =
                [latest_known_runtime EXCEPT
                    !.runtime_version_subscriptions = pass.subscriptions]
          /\ iter' = [iter EXCEPT !.log = @ \o Events("version", pass.sent,
                                              VersionOf(latest_known_runtime.runtime))]
          /\ delivered' = Deliver(delivered, pass.sent,
                                  VersionOf(latest_known_runtime.runtime))
    /\ bg_pc' = "end"
    /\ UNCHANGED <<runtime_matches_best_block, lock, last_best_notified>>
    /\ UNCHANGED bgLocals
    /\ UNCHANGED envVars
    /\ UNCHANGED callVars

\* The iteration ends, by `continue` or at the end of the loop body: its
\* locals are dropped, the guard of the mutex among them.
BgEnd ==
    /\ Running
    /\ UNCHANGED <<warpVars, codec, delivered>>
    /\ bg_pc = "end"
    /\ lock' = "none"
    /\ bg_pc' = "next"
    /\ new_best_block' = None
    /\ code_query_result' = NoResult
    /\ best_near_head_of_chain' = FALSE
    /\ iter' = NoIter
    /\ UNCHANGED <<runtime_matches_best_block, latest_known_runtime, last_best_notified>>
    /\ UNCHANGED envVars
    /\ UNCHANGED callVars

(***************************************************************************)
(* A task running recent_best_block_runtime_call_inner.                    *)
(***************************************************************************)
\* Mutant: only spec_version is read again, the block is the genesis block.
Snapshot_spec_version_only(lkr) ==
    [spec_version |-> lkr.runtime.runtime_spec,
     runtime_block_hash |-> hash_from_scale_encoded_header(GenesisBlock),
     runtime_block_height |-> 0,
     runtime_block_state_root |-> header_decode(GenesisBlock).state_root]

\* The tuple read from the cache at the start of an attempt.
Snapshot(lkr) ==
    [spec_version |-> lkr.runtime.runtime_spec,
     runtime_block_hash |-> lkr.runtime_block_hash,
     runtime_block_height |-> lkr.runtime_block_height,
     runtime_block_state_root |-> lkr.runtime_block_state_root]

\* What call_proof_query(..).await.unwrap_or(Vec::new()) can be: the proof
\* of the call on the requested block, or the empty proof if the query failed.
CallProofs(block_height) == {<<>>, <<header_decode(block_height).state_root>>}

\* proof_verify::verify_proof against trie_root_hash.
verify_proof(trie_root_hash, proof) == proof # <<>> /\ proof[1] = trie_root_hash

SpecVersionMismatch_never(runtime, spec_version) == FALSE

\* runtime.runtime_spec.decode().spec_version != spec_version
SpecVersionMismatch(runtime, spec_version) == runtime.runtime_spec # spec_version

\* What the execution can yield next: RuntimeHostVm.
RuntimeHostVm == {"FinishedOk", "FinishedErr", "StorageGet", "NextKey", "StorageRoot"}

\* runtime.virtual_machine = Some(prototype)
RestoreVm(lkr, prototype) == [lkr EXCEPT !.runtime.virtual_machine = Some(prototype)]

\* The function has returned to its caller: its locals are gone.  The caller
\* holds the value; metadata() wraps an error of the call in
\* MetadataError::CallError.
Returned_to_caller(value) == [NoCall EXCEPT !.result = Some(value)]

AfterReturn(result) ==
    Returned_to_caller(IF call.metadata THEN <<"CallError", result>> ELSE <<result>>)

\* RuntimeService::metadata, up to the call of Metadata_metadata: the cache is
\* locked and answers if it holds no runtime or holds the metadata.
MetadataStart ==
    /\ Running
    /\ UNCHANGED <<warpVars, codec, delivered>>
    /\ call_pc = "idle"
    /\ lock = "none"
    /\ LET runtime == latest_known_runtime.runtime
       IN IF ~runtime.ok
          THEN /\ call' = Returned_to_caller(<<"InvalidRuntime">>)
               /\ UNCHANGED call_pc
          ELSE IF IsSome(runtime.metadata)
          THEN /\ call' = Returned_to_caller(<<"Ok", Unwrap(runtime.metadata)>>)
               /\ UNCHANGED call_pc
          ELSE /\ call' = [NoCall EXCEPT !.metadata = TRUE,
                                         !.started_after = last_best_notified]
               /\ call_pc' = "snapshot"
    /\ UNCHANGED <<lock, latest_known_runtime, last_best_notified>>
    /\ UNCHANGED bgVars
    /\ UNCHANGED envVars

\* A caller enters recent_best_block_runtime_call_inner.
CallStart ==
    /\ Running
    /\ UNCHANGED <<warpVars, codec, delivered>>
    /\ call_pc = "idle"
    /\ call_pc' = "snapshot"
    /\ call' = [NoCall EXCEPT !.started_after = last_best_notified]
    /\ UNCHANGED <<lock, latest_known_runtime, last_best_notified>>
    /\ UNCHANGED bgVars
    /\ UNCHANGED envVars

\* The cache is locked, the tuple is read, and the cache is unlocked.
CallSnapshot ==
    /\ Running
    /\ UNCHANGED <<warpVars, codec, delivered>>
    /\ call_pc = "snapshot"
    /\ lock = "none"
    /\ IF ~latest_known_runtime.runtime.ok
       THEN /\ call' = AfterReturn("InvalidRuntime")
            /\ call_pc' = "idle"
       ELSE /\ call' = [call EXCEPT
                    !.spec_version = Snapshot(latest_known_runtime).spec_version,
                    !.runtime_block_hash = Snapshot(latest_known_runtime).runtime_block_hash,
                    !.runtime_block_height =
                        Snapshot(latest_known_runtime).runtime_block_height,
                    !.runtime_block_state_root =
                        Snapshot(latest_known_runtime).runtime_block_state_root]
            /\ call_pc' = "call_proof"
    /\ UNCHANGED <<lock, latest_known_runtime, last_best_notified>>
    /\ UNCHANGED bgVars
    /\ UNCHANGED envVars

\* The call proof request, made while the cache is not locked.
CallProof ==
    /\ Running
    /\ UNCHANGED <<warpVars, codec, delivered>>
    /\ call_pc = "call_proof"
    /\ \E proof \in CallProofs(call.runtime_block_height) :
          call' = [call EXCEPT !.call_proof = proof]
    /\ call_pc' = "relock"
    /\ UNCHANGED <<lock, latest_known_runtime, last_best_notified>>
    /\ UNCHANGED bgVars
    /\ UNCHANGED envVars

\* todo!() or unwrap() on None panics while the guard of the mutex is held.
\* Depending on the panic strategy of the build the panic unwinds, which
\* drops the execution and the guard, or aborts the process.
Panic ==
    \E strategy \in {"unwind", "abort"} :
        IF strategy = "unwind"
        THEN /\ lock' = "none"
             /\ call' = Returned_to_caller(<<"panic">>)
             /\ call_pc' = "idle"
        ELSE /\ lock' = "call"
             /\ call_pc' = "aborted"
             /\ UNCHANGED call

\* The cache is locked again; the attempt is abandoned if the runtime has
\* changed, otherwise the prototype is taken out of the slot and the call is
\* started.  started tells whether read_only_runtime_host::run succeeds.
CallRelock ==
    /\ Running
    /\ UNCHANGED <<warpVars, codec, delivered>>
    /\ call_pc = "relock"
    /\ lock = "none"
    /\ \E started \in BOOLEAN :
          LET runtime == latest_known_runtime.runtime
          IN IF ~runtime.ok
             THEN /\ call' = AfterReturn("InvalidRuntime")
                  /\ call_pc' = "idle"
                  /\ UNCHANGED <<lock, latest_known_runtime>>
             ELSE IF SpecVersionMismatch(runtime, call.spec_version)
             THEN /\ call' = [call EXCEPT !.retried = TRUE]
                  /\ call_pc' = "snapshot"
                  /\ UNCHANGED <<lock, latest_known_runtime>>
             ELSE IF ~IsSome(runtime.virtual_machine)
             THEN /\ Panic
                  /\ UNCHANGED latest_known_runtime
             ELSE IF started
             THEN /\ lock' = "call"
                  /\ call' = [call EXCEPT !.virtual_machine = runtime.virtual_machine]
                  /\ latest_known_runtime' =
                        [latest_known_runtime EXCEPT !.runtime.virtual_machine = None]
                  /\ call_pc' = "running"
             ELSE /\ latest_known_runtime' =
                        RestoreVm([latest_known_runtime EXCEPT
                                      !.runtime.virtual_machine = None],
                                  Unwrap(runtime.virtual_machine))
                  /\ call' = AfterReturn("StartError")
                  /\ call_pc' = "idle"
                  /\ UNCHANGED lock
    /\ UNCHANGED last_best_notified
    /\ UNCHANGED bgVars
    /\ UNCHANGED envVars

\* One turn of the loop over runtime_call.
CallStep ==
    /\ Running
    /\ UNCHANGED <<warpVars, codec, delivered>>
    /\ call_pc = "running"
    /\ \E runtime_call \in RuntimeHostVm :
          LET prototype == Unwrap(call.virtual_machine)
              get_ok == verify_proof(call.runtime_block_state_root, call.call_proof)
          IN IF runtime_call = "FinishedOk"
             THEN /\ latest_known_runtime' = RestoreVm(latest_known_runtime, prototype)
                  /\ call' = [call EXCEPT !.virtual_machine = None,
                                          !.return_value = Some(ReturnValue(prototype))]
                  /\ call_pc' = "returned_ok"
                  /\ UNCHANGED lock
             ELSE IF runtime_call = "FinishedErr"
             THEN /\ latest_known_runtime' = RestoreVm(latest_known_runtime, prototype)
                  /\ call' = AfterReturn("CallError")
                  /\ call_pc' = "idle"
                  /\ lock' = "none"
             ELSE IF runtime_call = "StorageGet" /\ ~get_ok
             THEN /\ latest_known_runtime' = RestoreVm(latest_known_runtime, prototype)
                  /\ call' = AfterReturn("StorageRetrieval")
                  /\ call_pc' = "idle"
                  /\ lock' = "none"
             ELSE IF runtime_call = "NextKey"
             THEN /\ Panic
                  /\ UNCHANGED latest_known_runtime
             ELSE UNCHANGED <<call, call_pc, lock, latest_known_runtime>>
    /\ UNCHANGED last_best_notified
    /\ UNCHANGED bgVars
    /\ UNCHANGED envVars

\* The caller of recent_best_block_runtime_call_inner drops the guard it
\* was returned; metadata() first stores the value in the cache, if
\* remove_metadata_length_prefix accepts it.
CallReturn ==
    /\ Running
    /\ UNCHANGED <<warpVars, codec, delivered>>
    /\ call_pc = "returned_ok"
    /\ lock' = "none"
    /\ call_pc' = "idle"
    /\ IF call.metadata
       THEN \E decoded \in BOOLEAN :
               LET metadata == remove_metadata_length_prefix(Unwrap(call.return_value))
               IN IF decoded
                  THEN /\ latest_known_runtime' =
                             [latest_known_runtime EXCEPT
                                 !.runtime.metadata = Some(metadata)]
                       /\ call' = Returned_to_caller(<<"Ok", metadata>>)
                  ELSE /\ call' = Returned_to_caller(<<"MetadataDecode">>)
                       /\ UNCHANGED latest_known_runtime
       ELSE /\ call' = Returned_to_caller(<<"Ok">>)
            /\ UNCHANGED latest_known_runtime
    /\ UNCHANGED last_best_notified
    /\ UNCHANGED bgVars
    /\ UNCHANGED envVars

(***************************************************************************)
(* Specifications.  Each one exercises one component and leaves the state  *)
(* of the other ones at rest.                                              *)
(***************************************************************************)
NextRuntime ==
    \/ SyncNewBest
    \/ SyncStreamEnd
    \/ SubscribeBest
    \/ SubscribeRuntimeVersion
    \/ BgNext
    \/ BgDebounce
    \/ BgDownload
    \/ BgLock
    \/ BgNotifyBest
    \/ BgUnpack
    \/ BgCompare
    \/ BgRebuild
    \/ BgNotifyVersion
    \/ BgEnd
    \/ CallStart
    \/ MetadataStart
    \/ CallSnapshot
    \/ CallProof
    \/ CallRelock
    \/ CallStep
    \/ CallReturn

WarpAtRest ==
    /\ warp_sync = None
    /\ error = NoError
    /\ selected = FALSE
    /\ user_datas = 0
    /\ accepted = None
    /\ batch_failed = FALSE
    /\ op = NoOp

RuntimeAtRest ==
    /\ chain = <<>>
    /\ blocks_stream = <<>>
    /\ stream_finished = TRUE
    /\ receivers = 0
    /\ delivered = NothingDelivered
    /\ lock = "none"
    /\ latest_known_runtime = GenesisLatestKnownRuntime(FALSE)
    /\ bg_pc = "exited"
    /\ new_best_block = None
    /\ code_query_result = NoResult
    /\ best_near_head_of_chain = FALSE
    /\ runtime_matches_best_block = FALSE
    /\ call_pc = "idle"
    /\ call = NoCall
    /\ iter = NoIter
    /\ last_best_notified = None

InitWarpSync ==
    /\ InitWarp
    /\ RuntimeAtRest
    /\ CodecAtRest

InitRuntimeService ==
    /\ InitRuntime
    /\ WarpAtRest
    /\ CodecAtRest

InitUtil ==
    /\ InitCodec
    /\ WarpAtRest
    /\ RuntimeAtRest

SpecWarp == InitWarpSync /\ [][NextWarp]_vars

\* The warp-sync machine when no request is ever answered: sources are added
\* and removed, and every request fails.
NextSources ==
    \/ AddManySources
    \/ RemoveSource
    \/ RequestFailed

SpecSources == InitWarpSync /\ [][NextSources]_vars

\* encode_scale_compact_usize(value)
Encode ==
    /\ codec.pc = "encode"
    /\ codec' = [codec EXCEPT !.pc = "decode",
                              !.bytes = encode_scale_compact_usize(Unwrap(codec.value))]
    /\ UNCHANGED <<warpVars, rtVars>>

\* nom_scale_compact_usize(bytes)
Decode ==
    /\ codec.pc = "decode"
    /\ codec' = [codec EXCEPT !.pc = "done",
                              !.result = Some(nom_scale_compact_usize(codec.build, codec.bytes))]
    /\ UNCHANGED <<warpVars, rtVars>>

NextUtil ==
    \/ Encode
    \/ Decode

SpecUtil == InitUtil /\ [][NextUtil]_vars

SpecRuntime == InitRuntimeService /\ [][NextRuntime]_vars

\* The runtime service under fair scheduling: the background task and the
\* task of a caller each take their next step when it can be taken, every
\* query of the sync service and every acquisition of the mutex returning.
BgTask ==
    \/ BgNext
    \/ BgDebounce
    \/ BgDownload
    \/ BgLock
    \/ BgNotifyBest
    \/ BgUnpack
    \/ BgCompare
    \/ BgRebuild
    \/ BgNotifyVersion
    \/ BgEnd

CallTask ==
    \/ CallSnapshot
    \/ CallProof
    \/ CallRelock
    \/ CallStep
    \/ CallReturn

SpecRuntimeFair == SpecRuntime /\ WF_vars(BgTask) /\ WF_vars(CallTask)

\* The runtime service over a longer chain, with runtime-version subscribers
\* only and a best-block stream that stays open.
NextUpgrades ==
    \/ SyncManyBest
    \/ SubscribeRuntimeVersion
    \/ BgNext
    \/ BgDebounce
    \/ BgDownload
    \/ BgLock
    \/ BgNotifyBest
    \/ BgUnpack
    \/ BgCompare
    \/ BgRebuild
    \/ BgNotifyVersion
    \/ BgEnd
    \/ CallStart
    \/ MetadataStart
    \/ CallSnapshot
    \/ CallProof
    \/ CallRelock
    \/ CallStep
    \/ CallReturn

SpecUpgrades == InitRuntimeService /\ [][NextUpgrades]_vars

(***************************************************************************)
(* Properties of the warp-sync machine (SpecWarp).                         *)
(***************************************************************************)
\* The finality a verifier built in this state is, or was, seeded from.
AcceptedFinality ==
    IF IsSome(accepted) THEN Unwrap(accepted).chain_information_finality
    ELSE warp_sync.start_chain_information.finality

\* C2: once batches have been accepted and a later batch has failed, every
\* WarpSyncRequest issued before the next accepted batch (by source selection
\* or by add_source on WaitingForSources) still holds the header and finality
\* of the last accepted batch: start_block_hash is the hash of that header,
\* and the verifier built from the next response is seeded from that finality.
C2_ProgressPreserved ==
    (batch_failed /\ IsSome(accepted)) =>
        /\ warp_sync.tag \in {"WarpSyncRequest", "WaitingForSources", "Verifier"}
        /\ warp_sync.previous_verifier_values = accepted
        /\ warp_sync.tag = "WarpSyncRequest" =>
              start_block_hash(warp_sync) = HeaderHash(Unwrap(accepted).header)
        /\ warp_sync.tag = "Verifier" =>
              Unwrap(warp_sync.verifier).seed = AcceptedFinality

\* A request issued after a failed batch, with progress accepted before it.
C2_Witness ==
    /\ batch_failed
    /\ IsSome(accepted)
    /\ warp_sync.tag = "WarpSyncRequest"
    /\ error = NoError

\* C3: a transition that reports an error returns WarpSyncRequest or
\* WaitingForSources, and Finished is only returned without an error and
\* carries the Success value.
C3_OnlySuccessTerminal ==
    /\ error # NoError => warp_sync.tag \in {"WarpSyncRequest", "WaitingForSources"}
    /\ warp_sync.tag = "Finished" => (error = NoError /\ IsSome(warp_sync.success))
    /\ warp_sync.tag \in InProgressTags => ~IsSome(warp_sync.success)

\* A fragment error was just reported and the machine is on a new request.
C3_Witness ==
    /\ error = "FragmentError"
    /\ warp_sync.tag = "WarpSyncRequest"

\* C10 as stated: every in-progress state whose sources are all already_tried
\* is WaitingForSources.
C10_Original ==
    (warp_sync.tag \in InProgressTags /\ AllTried(warp_sync.sources)) =>
        warp_sync.tag = "WaitingForSources"

\* C10, amended: a state returned by source selection whose sources are all
\* already_tried is WaitingForSources.
C10_SelectionExhausted ==
    (warp_sync.tag \in InProgressTags /\ selected /\ AllTried(warp_sync.sources)) =>
        warp_sync.tag = "WaitingForSources"

\* Source selection ran over a non-empty registry with every source tried.
C10_Witness ==
    /\ selected
    /\ SlabKeys(warp_sync.sources) # {}
    /\ AllTried(warp_sync.sources)
    /\ warp_sync.tag = "WaitingForSources"

\* The Source stored under a SourceId.
SourceOf(machine, id) == machine.sources.entries[id]

\* C11: add_source on WaitingForSources returns a WarpSyncRequest whose source
\* is the source just inserted, with already_tried = FALSE, and which keeps
\* the anchor and the (header, finality) accepted before.
C11_AddSourceOnWaiting ==
    [][(warp_sync.tag = "WaitingForSources" /\ user_datas' # user_datas) =>
          /\ warp_sync'.tag = "WarpSyncRequest"
          /\ warp_sync'.source_id = op'.id
          /\ ~SlabContains(warp_sync.sources, op'.id)
          /\ SlabContains(warp_sync'.sources, op'.id)
          /\ SourceOf(warp_sync', op'.id).user_data = user_datas'
          /\ ~SourceOf(warp_sync', op'.id).already_tried
          /\ warp_sync'.start_chain_information = warp_sync.start_chain_information
          /\ warp_sync'.previous_verifier_values = warp_sync.previous_verifier_values
          /\ error' = NoError]_vars

\* add_source was called on a WaitingForSources that held accepted progress
\* and sources that had all been tried.
C11_Witness ==
    /\ op.name = "add_source"
    /\ op.from = "WaitingForSources"
    /\ warp_sync.tag = "WarpSyncRequest"
    /\ IsSome(warp_sync.previous_verifier_values)
    /\ Cardinality(SlabKeys(warp_sync.sources)) >= 2

\* C12: in WaitingForSources every source of the registry has
\* already_tried = TRUE.
C12_WaitingAllTried ==
    warp_sync.tag = "WaitingForSources" =>
        \A id \in SlabKeys(warp_sync.sources) : SourceOf(warp_sync, id).already_tried

\* WaitingForSources with a tried source left after another was removed.
C12_Witness ==
    /\ warp_sync.tag = "WaitingForSources"
    /\ op.name = "remove_source"
    /\ SlabKeys(warp_sync.sources) # {}

\* C13: the SourceId add_source returns denotes the source just added, and
\* every id keeps being listed by sources() with the same user data under
\* source_user_data until remove_source is called with that id, which then
\* takes exactly that id out.
C13_SourceIdStable ==
    [][warp_sync'.tag \in InProgressTags =>
          /\ \A id \in SourceIds(warp_sync) :
                \/ /\ id \in SourceIds(warp_sync')
                   /\ source_user_data(warp_sync', id) = source_user_data(warp_sync, id)
                \/ /\ op'.name = "remove_source"
                   /\ op'.id = id
                   /\ op'.user_data = source_user_data(warp_sync, id)
          /\ user_datas' # user_datas =>
                /\ op'.id \notin SourceIds(warp_sync)
                /\ SourceIds(warp_sync') = SourceIds(warp_sync) \cup {op'.id}
                /\ source_user_data(warp_sync', op'.id) = op'.user_data
          /\ (op'.name = "remove_source" /\ warp_sync' # warp_sync) =>
                SourceIds(warp_sync') = SourceIds(warp_sync) \ {op'.id}]_vars

\* A source was removed, and a source added after it is still listed under
\* the id add_source returned for it.
C13_Witness ==
    /\ op.name = "remove_source"
    /\ \E id \in SourceIds(warp_sync) :
          /\ id > op.id
          /\ source_user_data(warp_sync, id) > op.user_data

\* C14: remove_source(id) of the source of the request in progress drops the
\* verifier or query under way and returns what source selection gives over
\* the remaining sources, which are left as they were.  Called on
\* WarpSyncRequest or Verifier it keeps the (header, finality) accepted
\* before; called on VirtualMachineParamsGet, StorageGet or NextKey it drops
\* them, and the next request starts from the anchor.
C14_RemoveCurrent ==
    [][(op'.name = "remove_source" /\ op'.current /\ warp_sync' # warp_sync) =>
          /\ warp_sync'.tag \in {"WarpSyncRequest", "WaitingForSources"}
          /\ SourceIds(warp_sync') = SourceIds(warp_sync) \ {op'.id}
          /\ \A id \in SourceIds(warp_sync') : SourceOf(warp_sync', id) = SourceOf(warp_sync, id)
          /\ warp_sync'.tag = "WarpSyncRequest" =>
                /\ warp_sync'.source_id \in SourceIds(warp_sync')
                /\ ~SourceOf(warp_sync', warp_sync'.source_id).already_tried
          /\ warp_sync'.tag = "WaitingForSources" =>
                \A id \in SourceIds(warp_sync') : SourceOf(warp_sync', id).already_tried
          /\ warp_sync'.verifier = None
          /\ warp_sync'.fetched_current_epoch = None
          /\ warp_sync'.runtime = None
          /\ warp_sync'.start_chain_information = warp_sync.start_chain_information
          /\ warp_sync.tag \in {"WarpSyncRequest", "Verifier"} =>
                warp_sync'.previous_verifier_values = warp_sync.previous_verifier_values
          /\ warp_sync.tag \in PostVerificationTags =>
                /\ warp_sync'.previous_verifier_values = None
                /\ warp_sync'.tag = "WarpSyncRequest" =>
                      start_block_hash(warp_sync') =
                          HeaderHash(warp_sync.start_chain_information.finalized_block_header)]_vars

\* The source that served the verified fragments was removed during a
\* runtime query, and a request to another source was issued.
C14_Witness ==
    /\ op.name = "remove_source"
    /\ op.current
    /\ op.from \in PostVerificationTags
    /\ warp_sync.tag = "WarpSyncRequest"
    /\ selected

\* C15: remove_source(id) of a source other than the one of the request in
\* progress returns the user data of id and the same variant with every field
\* as it was (source of the request, verifier or query, anchor, accepted
\* header and finality), except that id has left the registry.
C15_RemoveOther ==
    [][(op'.name = "remove_source" /\ ~op'.current /\ warp_sync' # warp_sync) =>
          /\ \A field \in DOMAIN warp_sync \ {"sources"} :
                warp_sync'[field] = warp_sync[field]
          /\ SourceIds(warp_sync') = SourceIds(warp_sync) \ {op'.id}
          /\ \A id \in SourceIds(warp_sync') : SourceOf(warp_sync', id) = SourceOf(warp_sync, id)
          /\ op'.id \in SourceIds(warp_sync)
          /\ op'.user_data = SourceOf(warp_sync, op'.id).user_data
          /\ error' = NoError]_vars

\* A source that is not being verified was removed during the verification
\* of a batch that follows an accepted one.
C15_Witness ==
    /\ op.name = "remove_source"
    /\ ~op.current
    /\ warp_sync.tag = "Verifier"
    /\ IsSome(warp_sync.previous_verifier_values)

\* C16: the sources of Finished(Success) are the user data of the sources in
\* the registry when the machine finished, each listed once, and of no source
\* removed before.
C16_SuccessSources ==
    [][(warp_sync'.tag = "Finished" /\ warp_sync.tag # "Finished") =>
          LET listed == Unwrap(warp_sync'.success).sources
          IN /\ Len(listed) = Cardinality(SourceIds(warp_sync))
             /\ {listed[i] : i \in 1..Len(listed)} =
                    {source_user_data(warp_sync, id) : id \in SourceIds(warp_sync)}]_vars

\* The machine finished with one source after another had been removed.
C16_Witness ==
    /\ warp_sync.tag = "Finished"
    /\ Len(Unwrap(warp_sync.success).sources) = 1
    /\ user_datas = 2

\* The sources of the registry that no request has been answered for.
Untried(machine) == {id \in SourceIds(machine) : ~SourceOf(machine, id).already_tried}

\* C17 as stated: source selection returns a request to the untried source
\* that was added first (user data are numbered in the order of add_source),
\* and WaitingForSources only when no source is untried.
C17_Original ==
    selected =>
        /\ warp_sync.tag = "WarpSyncRequest" =>
              \A id \in Untried(warp_sync) :
                  source_user_data(warp_sync, warp_sync.source_id)
                      <= source_user_data(warp_sync, id)
        /\ warp_sync.tag = "WaitingForSources" => Untried(warp_sync) = {}

\* C17, amended: source selection returns a request to the untried source
\* with the smallest SourceId (slot of the slab), and WaitingForSources only
\* when no source is untried.
C17_SelectionBySlot ==
    selected =>
        /\ warp_sync.tag \in {"WarpSyncRequest", "WaitingForSources"}
        /\ warp_sync.tag = "WarpSyncRequest" =>
              /\ warp_sync.source_id \in Untried(warp_sync)
              /\ \A id \in Untried(warp_sync) : warp_sync.source_id <= id
        /\ warp_sync.tag = "WaitingForSources" => Untried(warp_sync) = {}

\* Selection took a source that sits in a reused slot, below an untried
\* source that was added before it.
C17_Witness ==
    /\ selected
    /\ warp_sync.tag = "WarpSyncRequest"
    /\ \E id \in Untried(warp_sync) :
          /\ id > warp_sync.source_id
          /\ source_user_data(warp_sync, id)
                 < source_user_data(warp_sync, warp_sync.source_id)

\* C18 as stated: a source has already_tried = TRUE from the state in which
\* the WarpSyncRequest to it is issued.
C18_Original ==
    warp_sync.tag = "WarpSyncRequest" =>
        SourceOf(warp_sync, warp_sync.source_id).already_tried

\* C18, amended: already_tried of a source becomes TRUE in handle_response on
\* the WarpSyncRequest to that source, whatever the response, and in no
\* other transition; a request just issued by source selection or by
\* add_source on WaitingForSources is to a source with already_tried = FALSE.
C18_TriedOnResponse ==
    [][/\ \A id \in SourceIds(warp_sync) \cap SourceIds(warp_sync') :
             (~SourceOf(warp_sync, id).already_tried /\ SourceOf(warp_sync', id).already_tried)
                 => (op'.name = "handle_response" /\ warp_sync.source_id = id)
       /\ (op'.name = "handle_response" /\ warp_sync' # warp_sync) =>
             SourceOf(warp_sync', warp_sync.source_id).already_tried
       /\ (/\ warp_sync' # warp_sync
           /\ warp_sync'.tag = "WarpSyncRequest"
           /\ selected' \/ (op'.name = "add_source" /\ op'.from = "WaitingForSources")) =>
             ~SourceOf(warp_sync', warp_sync'.source_id).already_tried]_vars

\* A response was handed in for a request, its source is now marked, and
\* another source has had no request yet.
C18_Witness ==
    /\ op.name = "handle_response"
    /\ warp_sync.tag = "Verifier"
    /\ SourceOf(warp_sync, warp_sync.source_id).already_tried
    /\ Untried(warp_sync) # {}

\* C19: the source of every WarpSyncRequest has already_tried = FALSE, and
\* already_tried turns TRUE only for a source that a WarpSyncRequest was
\* issued to.
C19_TargetUntried ==
    [][/\ warp_sync'.tag = "WarpSyncRequest" =>
             ~SourceOf(warp_sync', warp_sync'.source_id).already_tried
       /\ \A id \in SourceIds(warp_sync) \cap SourceIds(warp_sync') :
             (~SourceOf(warp_sync, id).already_tried /\ SourceOf(warp_sync', id).already_tried)
                 => (warp_sync.tag = "WarpSyncRequest" /\ warp_sync.source_id = id)]_vars

\* C20: no transition (verification failure, failure of the runtime build or
\* of the epoch queries, add_source, remove_source of another source) turns
\* already_tried of a source of the registry back to FALSE.
C20_TriedNeverReset ==
    [][\A id \in SourceIds(warp_sync) \cap SourceIds(warp_sync') :
          SourceOf(warp_sync, id).already_tried =>
              /\ SourceOf(warp_sync', id).already_tried
              /\ source_user_data(warp_sync', id) = source_user_data(warp_sync, id)]_vars

\* A runtime query failed and the machine moved on to an untried source,
\* the source that served the fragments staying marked.
C20_Witness ==
    /\ op.from \in PostVerificationTags
    /\ error # NoError
    /\ warp_sync.tag = "WarpSyncRequest"
    /\ \E id \in SourceIds(warp_sync) : SourceOf(warp_sync, id).already_tried

\* The calls that drive the epoch queries from the current state: the values
\* the query takes, the epoch held before the call, and what the call returns.
EpochQueryCalls ==
    CASE warp_sync.tag = "VirtualMachineParamsGet" ->
             {[query |-> q, fetched |-> None,
               result |-> set_virtual_machine_params(warp_sync, Some(code), heap_pages, q)] :
                  q \in QueryRuns, code \in {"B0", "B1"},
                  heap_pages \in {None, Some(HeapPagesValid)}}
      [] warp_sync.tag = "StorageGet" ->
             {[query |-> q, fetched |-> warp_sync.fetched_current_epoch,
               result |-> inject_value(warp_sync, q)] : q \in QueryRuns}
      [] warp_sync.tag = "NextKey" ->
             {[query |-> q, fetched |-> warp_sync.fetched_current_epoch,
               result |-> inject_key(warp_sync, q)] : q \in QueryRuns}
      [] OTHER -> {}

IsEpochResult(v) == v.kind = "Finished"

\* The epochs fetched so far once a call has run: the one held before the
\* call, then the results of the queries the call has seen finish.
EpochsFetched(c) ==
    LET fin == SelectSeq(c.query, IsEpochResult)
    IN (IF IsSome(c.fetched) THEN <<Unwrap(c.fetched)>> ELSE <<>>)
           \o [i \in 1..Len(fin) |-> fin[i].epoch]

\* C25: a transition reaches Finished only when both epoch queries have
\* succeeded, the current-epoch query first; the chain information it returns
\* has the header and the finality of the verified batch held by the
\* post-verification state, the first query's result as current epoch, the
\* second query's result as next epoch and the anchor's slots_per_epoch.  A
\* transition that pauses the query keeps the header, the finality and the
\* first result.
C25_FinishedChainInformation ==
    \A c \in EpochQueryCalls :
        c.result.complete =>
            LET m == c.result.machine
                fin == SelectSeq(c.query, IsEpochResult)
                epochs == EpochsFetched(c)
            IN /\ m.tag = "Finished" =>
                     LET ci == Unwrap(m.success).chain_information
                     IN /\ Len(epochs) = 2
                        /\ \A i \in 1..Len(fin) : fin[i].ok
                        /\ ci.finalized_block_header = warp_sync.header
                        /\ ci.finality = warp_sync.chain_information_finality
                        /\ ci.slots_per_epoch
                              = warp_sync.start_chain_information.slots_per_epoch
                        /\ ci.finalized_block_epoch_information = Some(epochs[1])
                        /\ ci.finalized_next_epoch_transition = Some(epochs[2])
               /\ m.tag \in {"StorageGet", "NextKey"} =>
                     /\ m.header = warp_sync.header
                     /\ m.chain_information_finality = warp_sync.chain_information_finality
                     /\ m.start_chain_information = warp_sync.start_chain_information
                     /\ m.fetched_current_epoch
                          = (IF epochs = <<>> THEN None ELSE Some(epochs[1]))

C25_Witness ==
    /\ warp_sync.tag = "Finished"
    /\ op.name = "inject_value"
    /\ Unwrap(warp_sync.success).chain_information.finalized_block_header # 0
    /\ IsSome(Unwrap(warp_sync.success).chain_information.finalized_next_epoch_transition)

\* C26: when Verifier::next verifies the last fragment of a batch, the
\* machine moves to VirtualMachineParamsGet, holding the new header, the new
\* finality and the id of the delivering source, exactly when the response
\* had is_finished = true; otherwise it moves to WarpSyncRequest for the same
\* source id with the new (header, finality) stored, and no source selection
\* runs: the registry is left as it was.
C26_VerifierSuccess ==
    /\ [][(op'.name = "next" /\ warp_sync.tag = "Verifier"
              /\ WarpSyncVerifierNext(Unwrap(warp_sync.verifier)).kind = "Success") =>
             LET r == WarpSyncVerifierNext(Unwrap(warp_sync.verifier))
             IN /\ error' = NoError
                /\ warp_sync'.tag = "VirtualMachineParamsGet"
                      <=> warp_sync.final_set_of_fragments
                /\ warp_sync'.source_id = warp_sync.source_id
                /\ warp_sync'.sources = warp_sync.sources
                /\ warp_sync'.start_chain_information = warp_sync.start_chain_information
                /\ ~selected'
                /\ warp_sync.final_set_of_fragments =>
                      /\ warp_sync'.header = r.header
                      /\ warp_sync'.chain_information_finality
                            = r.chain_information_finality
                /\ ~warp_sync.final_set_of_fragments =>
                      /\ warp_sync'.tag = "WarpSyncRequest"
                      /\ warp_sync'.previous_verifier_values
                            = Some([header |-> r.header,
                                    chain_information_finality |->
                                        r.chain_information_finality])]_vars
    /\ [](warp_sync.tag = "WarpSyncRequest" =>
             \A response \in Responses :
                 LET m == handle_response(warp_sync, Some(response)).machine
                 IN m.tag = "Verifier" =>
                        /\ m.final_set_of_fragments = response.is_finished
                        /\ m.source_id = warp_sync.source_id)

C26_Witness ==
    /\ op.name = "next"
    /\ error = NoError
    /\ warp_sync.tag = "WarpSyncRequest"
    /\ IsSome(warp_sync.previous_verifier_values)
    /\ Cardinality(Untried(warp_sync)) > 0
    /\ SourceOf(warp_sync, warp_sync.source_id).already_tried

\* C27: handle_response(None) marks the source of the request as tried and
\* leaves the other sources, the anchor and the accepted (header, finality)
\* as they were; the machine then holds a request to a source that is untried
\* and is not the one that failed, or WaitingForSources when no source is
\* untried.
C27_RequestFailed ==
    [][(op'.name = "handle_response" /\ warp_sync.tag = "WarpSyncRequest"
          /\ warp_sync'.tag # "Verifier") =>
         /\ SourceIds(warp_sync') = SourceIds(warp_sync)
         /\ SourceOf(warp_sync', warp_sync.source_id).already_tried
         /\ \A id \in SourceIds(warp_sync) \ {warp_sync.source_id} :
                SourceOf(warp_sync', id) = SourceOf(warp_sync, id)
         /\ warp_sync'.start_chain_information = warp_sync.start_chain_information
         /\ warp_sync'.previous_verifier_values = warp_sync.previous_verifier_values
         /\ IF Untried(warp_sync) \ {warp_sync.source_id} # {}
            THEN /\ warp_sync'.tag = "WarpSyncRequest"
                 /\ warp_sync'.source_id \in Untried(warp_sync) \ {warp_sync.source_id}
            ELSE warp_sync'.tag = "WaitingForSources"]_vars

C27_Witness ==
    /\ op.name = "handle_response"
    /\ selected
    /\ warp_sync.tag = "WarpSyncRequest"
    /\ IsSome(warp_sync.previous_verifier_values)
    /\ \E id \in SourceIds(warp_sync) \ {warp_sync.source_id} :
           SourceOf(warp_sync, id).already_tried

PostVerificationErrors ==
    {"MissingCode", "InvalidHeapPages", "NewRuntime", "BabeFetchEpoch", "InvalidChain"}

\* C28: a call on a post-verification state that returns MissingCode,
\* InvalidHeapPages, NewRuntime, BabeFetchEpoch or InvalidChain leaves the
\* registry and every already_tried flag as they were and drops the verified
\* header and finality: the machine holds a request that starts from the
\* anchor's finalized block, to an untried source that is not the one that
\* delivered the fragments, or is in WaitingForSources when no source is
\* untried.  A call that returns no error does not restart.
C28_PostVerificationFailure ==
    [][(op'.name \in {"set_virtual_machine_params", "inject_value", "inject_key"}
          /\ warp_sync.tag \in PostVerificationTags) =>
         /\ error' \in PostVerificationErrors \cup {NoError}
         /\ error' = NoError => warp_sync'.tag \in PostVerificationTags \cup {"Finished"}
         /\ error' # NoError =>
               /\ warp_sync'.sources = warp_sync.sources
               /\ warp_sync'.start_chain_information = warp_sync.start_chain_information
               /\ warp_sync'.previous_verifier_values = None
               /\ SourceOf(warp_sync, warp_sync.source_id).already_tried
               /\ IF Untried(warp_sync) # {}
                  THEN /\ warp_sync'.tag = "WarpSyncRequest"
                       /\ warp_sync'.source_id \in Untried(warp_sync)
                       /\ warp_sync'.source_id # warp_sync.source_id
                       /\ start_block_hash(warp_sync')
                             = HeaderHash(warp_sync.start_chain_information
                                              .finalized_block_header)
                  ELSE warp_sync'.tag = "WaitingForSources"]_vars

C28_Witness ==
    /\ op.from \in PostVerificationTags
    /\ error = "InvalidChain"
    /\ warp_sync.tag = "WarpSyncRequest"
    /\ \E id \in SourceIds(warp_sync) : SourceOf(warp_sync, id).already_tried

\* The variants that hold the id of a source.
AttachedTags == {"WarpSyncRequest", "Verifier"} \cup PostVerificationTags

\* C35: in every state that holds the id of a source (the source of the
\* request, of the verification or of the post-verification state) the id is
\* the id of a source of the registry, so that the debug assertions on
\* sources.contains(id) hold.
C35_AttachedSourcePresent ==
    warp_sync.tag \in AttachedTags => warp_sync.source_id \in SourceIds(warp_sync)

C35_Witness ==
    /\ warp_sync.tag \in PostVerificationTags
    /\ op.name = "remove_source"
    /\ op.id < warp_sync.source_id
    /\ user_datas = MaxSources

\* C36: as_chain_information returns the start_chain_information of the
\* Config in every in-progress state: it is one of the anchors at
\* construction and no transition to an in-progress state changes it.
C36_AnchorConstant ==
    /\ (op = NoOp => as_chain_information(warp_sync) \in Anchors)
    /\ [][warp_sync'.tag \in InProgressTags =>
             as_chain_information(warp_sync') = as_chain_information(warp_sync)]_vars

C36_Witness ==
    /\ warp_sync.tag = "WarpSyncRequest"
    /\ IsSome(warp_sync.previous_verifier_values)
    /\ op.name = "remove_source"
    /\ selected

\* C37: source selection returns a source that is untried and is not the
\* source attached before; a source that stops being attached, or on which
\* selection runs, is by then marked already_tried or removed, and the mark
\* stays while the source is registered, so that no source is selected
\* twice.  A request that does not come from selection is the first request
\* to a source added in WaitingForSources, or the continuation on the same
\* source after a verified batch that was not the last one.
C37_SelectedOnce ==
    [][/\ (selected' /\ warp_sync'.tag = "WarpSyncRequest") =>
             /\ warp_sync'.source_id \in Untried(warp_sync')
             /\ warp_sync'.source_id \in Untried(warp_sync)
             /\ warp_sync.tag \in AttachedTags =>
                   warp_sync'.source_id # warp_sync.source_id
       /\ (warp_sync.tag \in AttachedTags /\ warp_sync'.tag \in InProgressTags
             /\ (selected' \/ warp_sync'.tag \notin AttachedTags
                    \/ warp_sync'.source_id # warp_sync.source_id)) =>
             \/ warp_sync.source_id \notin SourceIds(warp_sync')
             \/ SourceOf(warp_sync', warp_sync.source_id).already_tried
       /\ (warp_sync'.tag \in InProgressTags /\ op'.name # "add_source") =>
             \A id \in SourceIds(warp_sync) \cap SourceIds(warp_sync') :
                 SourceOf(warp_sync, id).already_tried =>
                     SourceOf(warp_sync', id).already_tried
       /\ (warp_sync'.tag = "WarpSyncRequest" /\ warp_sync.tag # "WarpSyncRequest"
             /\ ~selected') =>
             \/ /\ warp_sync.tag = "WaitingForSources"
                /\ op'.name = "add_source"
                /\ warp_sync'.source_id = op'.id
                /\ op'.id \notin SourceIds(warp_sync)
             \/ /\ warp_sync.tag = "Verifier"
                /\ op'.name = "next"
                /\ error' = NoError
                /\ ~warp_sync.final_set_of_fragments
                /\ warp_sync'.source_id = warp_sync.source_id]_vars

C37_Witness ==
    /\ warp_sync.tag = "WaitingForSources"
    /\ selected
    /\ Cardinality(SourceIds(warp_sync)) = MaxSources
    /\ IsSome(warp_sync.previous_verifier_values)

(***************************************************************************)
(* Properties of the SCALE compact codec (SpecUtil).                       *)
(***************************************************************************)
\* C21: decoding the encoding of a usize gives that usize back and leaves no
\* byte of the encoding unread.
C21_RoundTrip ==
    (codec.pc = "done" /\ IsSome(codec.value)) =>
        Unwrap(codec.result) =
            [kind |-> "Ok", rest |-> <<>>, value |-> Unwrap(codec.value)]

\* 2^63 was encoded and decoded on a 64-bit target.
C21_Witness ==
    /\ codec.pc = "done"
    /\ codec.build.usize_bits = 64
    /\ codec.value = Some(<<0, 0, 0, 0, 0, 0, 0, 128>>)
    /\ Len(codec.bytes) = 9
    /\ Unwrap(codec.result).kind = "Ok"

\* The decoder was given a big-integer encoding with all its bytes.
BigIntegerInput ==
    /\ codec.pc = "done"
    /\ codec.bytes # <<>>
    /\ codec.bytes[1] % 4 = 3
    /\ Len(codec.bytes) >= (codec.bytes[1] \div 4) + 5

\* The value of the encoding does not fit the usize of the build: a byte
\* beyond the width of usize is not zero.
ExceedsUsize ==
    \E i \in (codec.build.usize_bits \div 8 + 1)..((codec.bytes[1] \div 4) + 4) :
        codec.bytes[i + 1] # 0

\* C22: given a big-integer encoding of a value above the maximum of usize,
\* the decoder returns a parse error, and no value.
C22_OverflowRejected ==
    (BigIntegerInput /\ ExceedsUsize) => Unwrap(codec.result).kind = "Err"

\* The way in which a decoder input is wrong, if it is: too short for its
\* mode, a big-integer encoding whose highest byte is zero, or a big-integer
\* encoding of a value above the maximum of usize.
FailureMode(build, bytes) ==
    LET needed == CASE bytes = <<>> -> 1
                    [] bytes # <<>> /\ bytes[1] % 4 = 0 -> 1
                    [] bytes # <<>> /\ bytes[1] % 4 = 1 -> 2
                    [] bytes # <<>> /\ bytes[1] % 4 = 2 -> 4
                    [] OTHER -> (bytes[1] \div 4) + 5
    IN IF Len(bytes) < needed THEN "insufficient"
       ELSE IF bytes[1] % 4 # 3 THEN "none"
       ELSE IF bytes[needed] = 0 THEN "non_canonical"
       ELSE IF needed - 1 > build.usize_bits \div 8 THEN "overflow"
       ELSE "none"

\* C23: an input that is too short, a non-canonical big-integer encoding and
\* an overflowing big-integer encoding each get an error that holds the
\* whole input, and the kinds of the errors of two of these sorts differ.
C23_DistinctErrors ==
    (codec.pc = "done" /\ codec.value = None
        /\ FailureMode(codec.build, codec.bytes) # "none") =>
        /\ Unwrap(codec.result).kind = "Err"
        /\ Unwrap(codec.result).input = codec.bytes
        /\ \A other \in Inputs :
              FailureMode(codec.build, other)
                    \notin {"none", FailureMode(codec.build, codec.bytes)} =>
                  LET r == nom_scale_compact_usize(codec.build, other)
                  IN r.kind = "Err" /\ r.code # Unwrap(codec.result).code

(***************************************************************************)
(* Properties of the runtime service (SpecRuntime).                        *)
(***************************************************************************)
Runtime == latest_known_runtime.runtime

\* Positions of the background task between taking the mutex and dropping
\* its guard.
BgLocked == {"notify_best", "unpack", "compare", "rebuild", "notify_version", "end"}

\* Positions of an attempt of the call after the call proof was requested.
CallOperating == {"call_proof", "relock", "running", "returned_ok"}

LogKinds(kinds) == {i \in DOMAIN iter.log : iter.log[i].kind \in kinds}

\* C1: while a call executes, and when it returns Ok with the guard of the
\* mutex, the call holds the mutex and the spec version of the runtime in
\* the cache is the one it read at the start of the attempt.
C1_CallSpecVersion ==
    call_pc \in {"running", "returned_ok"} =>
        /\ lock = "call"
        /\ Runtime.ok
        /\ Runtime.runtime_spec = call.spec_version

\* A call returned Ok after an attempt was abandoned at the re-lock.
C1_Witness ==
    /\ call_pc = "returned_ok"
    /\ call.retried

\* The downloaded :code and :heappages are those the cache held when the
\* background task took the mutex.
DownloadedEqualsCached ==
    /\ iter.acquired
    /\ code_query_result.kind = "Ok"
    /\ new_code = iter.runtime_code
    /\ new_heap_pages = iter.heap_pages

\* C4: in an iteration whose downloaded :code and :heappages equal the
\* cached ones, the runtime is not rebuilt and nothing is sent to the
\* runtime-version subscribers.
C4_NoChangeNoNotify ==
    DownloadedEqualsCached =>
        /\ bg_pc \notin {"rebuild", "notify_version"}
        /\ LogKinds({"rebuild", "version"}) = {}
        /\ latest_known_runtime.runtime_code = iter.runtime_code
        /\ latest_known_runtime.heap_pages = iter.heap_pages

\* Such an iteration reached its end while a runtime-version subscriber was
\* registered.
C4_Witness ==
    /\ DownloadedEqualsCached
    /\ bg_pc = "end"
    /\ latest_known_runtime.runtime_version_subscriptions # <<>>

\* The block fields of the cache are those of block, and the cached code,
\* heap pages and runtime are those of its storage.
CacheDescribes(block) ==
    LET built == SuccessfulRuntime_from_params(latest_known_runtime.runtime_code,
                                               latest_known_runtime.heap_pages)
    IN /\ latest_known_runtime.runtime_block_hash = hash_from_scale_encoded_header(block)
       /\ latest_known_runtime.runtime_block_height = header_decode(block).number
       /\ latest_known_runtime.runtime_block_state_root = header_decode(block).state_root
       /\ latest_known_runtime.runtime_code = BlockStorage(block).code
       /\ latest_known_runtime.heap_pages = BlockStorage(block).heap_pages
       /\ Runtime.ok = built.ok
       /\ Runtime.runtime_spec = built.runtime_spec

\* C5: whenever the mutex is not held, the block fields of the cache are
\* those of one block, whose :code and :heappages are the cached ones, from
\* which the cached runtime was built.
C5_CacheConsistent ==
    lock = "none" => \E block \in 0..Len(chain) : CacheDescribes(block)

\* The cache was released describing a block after the genesis block whose
\* runtime differs from the genesis one.
C5_Witness ==
    /\ lock = "none"
    /\ latest_known_runtime.runtime_block_height > 0
    /\ <<latest_known_runtime.runtime_code, latest_known_runtime.heap_pages>>
           # <<GenesisStorage.code, GenesisStorage.heap_pages>>

\* C6: the background task holds the mutex from the best-block pass to the
\* end of the iteration; the sends to the runtime-version subscribers come
\* after the rebuild and after every send of the header to the best-block
\* subscribers, and by then every best-block subscriber that is still
\* registered was sent the header of the block being processed.
C6_VersionAfterBest ==
    /\ bg_pc \in BgLocked <=> lock = "background"
    /\ bg_pc \in BgLocked => iter.acquired
    /\ \A i \in LogKinds({"version"}) :
          /\ \A j \in LogKinds({"best"}) : j < i
          /\ \E j \in LogKinds({"rebuild"}) : j < i
    /\ bg_pc \in {"compare", "rebuild", "notify_version", "end"} =>
          \A k \in DOMAIN latest_known_runtime.best_blocks_subscriptions :
             \E j \in LogKinds({"best"}) :
                /\ iter.log[j].sub = latest_known_runtime.best_blocks_subscriptions[k]
                /\ iter.log[j].ok
                /\ iter.log[j].value = Unwrap(new_best_block)

\* A runtime change was notified to a runtime-version subscriber after the
\* header was sent to a best-block subscriber.
C6_Witness ==
    /\ bg_pc = "end"
    /\ \E i \in LogKinds({"version"}), j \in LogKinds({"best"}) :
          iter.log[i].ok /\ iter.log[j].ok

\* C7: whenever the mutex is not held and the cached runtime is Ok, its
\* virtual_machine slot is populated.
C7_SlotPopulated ==
    (lock = "none" /\ Runtime.ok) => IsSome(Runtime.virtual_machine)

\* C8: a call started after the header of a block was sent to a best-block
\* subscriber operates on that block or on a later one.
C8_CallOnNotifiedOrLater ==
    (call_pc \in CallOperating /\ IsSome(call.started_after)) =>
        call.runtime_block_height >= header_decode(Unwrap(call.started_after)).number

\* C9: the header of a block whose :code and :heappages could not be
\* downloaded is not sent to the best-block subscribers.
C9_SkippedNotReported ==
    (iter.acquired /\ code_query_result.kind = "Err") => LogKinds({"best"}) = {}

\* C24: a call that finds, when it locks the cache again, a runtime whose
\* spec version is not the one it read goes back to the start without taking
\* the virtual machine, without changing the cache and without keeping the
\* mutex; it then reads spec_version and runtime_block_* from the cache as it
\* is then, asks for the call proof of that block, and executes and returns Ok
\* only under the spec version it read last.
C24_RestartOnUpgrade ==
    [][/\ (call_pc = "relock" /\ call_pc' # "relock" /\ Runtime.ok
            /\ Runtime.runtime_spec # call.spec_version) =>
             /\ call_pc' = "snapshot"
             /\ call'.retried
             /\ call'.virtual_machine = None
             /\ latest_known_runtime' = latest_known_runtime
             /\ lock' = "none"
       /\ (call_pc = "snapshot" /\ call_pc' = "call_proof") =>
             /\ call'.spec_version = Runtime.runtime_spec
             /\ call'.runtime_block_hash = latest_known_runtime.runtime_block_hash
             /\ call'.runtime_block_height = latest_known_runtime.runtime_block_height
             /\ call'.runtime_block_state_root =
                    latest_known_runtime.runtime_block_state_root
             /\ lock' = lock
       /\ (call_pc = "call_proof" /\ call_pc' = "relock") =>
             call'.call_proof \in CallProofs(call.runtime_block_height)
       /\ (call_pc' \in {"running", "returned_ok"} /\ call'.retried) =>
             /\ latest_known_runtime'.runtime.ok
             /\ latest_known_runtime'.runtime.runtime_spec = call'.spec_version
             /\ call'.call_proof \in CallProofs(call'.runtime_block_height)]_vars

\* After an abandoned attempt the call executes on the block of the upgrade,
\* with the call proof of that block.
C24_Witness ==
    /\ call_pc = "running"
    /\ call.retried
    /\ call.runtime_block_hash # hash_from_scale_encoded_header(GenesisBlock)
    /\ call.call_proof # <<>>

\* The runtime the cache holds and the block it was read from.
RuntimeFields(lkr) ==
    <<lkr.runtime, lkr.runtime_code, lkr.heap_pages, lkr.runtime_block_hash,
      lkr.runtime_block_height, lkr.runtime_block_state_root>>

\* The subscribers the iteration has sent an item of the kind to.
SentTo(log, kind) == {log[i].sub : i \in {j \in 1..Len(log) : log[j].kind = kind}}

FailedBuildStep(in_flight) ==
    /\ (bg_pc = "rebuild" /\ bg_pc' # bg_pc
          /\ ~SuccessfulRuntime_from_params(new_code, new_heap_pages).ok) =>
          /\ latest_known_runtime'.runtime = RuntimeErr
          /\ latest_known_runtime'.runtime_code = new_code
          /\ latest_known_runtime'.heap_pages = new_heap_pages
          /\ bg_pc' = "notify_version"
    /\ (bg_pc = "notify_version" /\ bg_pc' # bg_pc /\ ~latest_known_runtime.runtime.ok) =>
          /\ SentTo(iter'.log, "version")
                = {latest_known_runtime.runtime_version_subscriptions[i] :
                      i \in 1..Len(latest_known_runtime.runtime_version_subscriptions)}
          /\ \A i \in 1..Len(iter'.log) :
                 iter'.log[i].kind = "version" => iter'.log[i].value = <<"Err">>
    /\ ~latest_known_runtime.runtime.ok =>
          /\ call_pc' \notin {"running", "returned_ok"}
          /\ (call_pc \in {"snapshot", "relock"} /\ call_pc' # call_pc) =>
                /\ call_pc' = "idle"
                /\ call'.result = Some(IF call.metadata THEN in_flight
                                        ELSE <<"InvalidRuntime">>)
          /\ (call_pc = "idle" /\ call_pc' = "idle" /\ call' # call) =>
                call'.result = Some(<<"InvalidRuntime">>)
          /\ latest_known_runtime'.runtime.ok =>
                /\ bg_pc = "rebuild"
                /\ <<new_code, new_heap_pages>>
                      # <<latest_known_runtime.runtime_code, latest_known_runtime.heap_pages>>
          /\ (bg_pc = "compare" /\ bg_pc' # bg_pc /\ RuntimeUnchanged) =>
                /\ bg_pc' = "end"
                /\ latest_known_runtime' = latest_known_runtime
                /\ iter' = iter

\* C30 as stated: while the cache holds the error sentinel every runtime
\* call and every metadata() call returns InvalidRuntime.
C30_Original == [][FailedBuildStep(<<"InvalidRuntime">>)]_vars

\* C30: when changed :code/:heappages fail to build, the cache stores the
\* error sentinel and the new bytes and every runtime-version subscriber is
\* sent Err; while the sentinel is stored a runtime call returns
\* InvalidRuntime without executing, metadata() returns InvalidRuntime when
\* it finds the sentinel at its first look at the cache and
\* CallError(InvalidRuntime) when it finds it later, and the sentinel is only
\* replaced by a rebuild from different bytes; an iteration that downloads
\* the stored bytes again neither rebuilds nor notifies.
C30_FailedBuild == [][FailedBuildStep(<<"CallError", "InvalidRuntime">>)]_vars

C30_Witness ==
    /\ ~latest_known_runtime.runtime.ok
    /\ latest_known_runtime.runtime_code = Some("Bad")
    /\ call.result = Some(<<"CallError", "InvalidRuntime">>)
    /\ Len(latest_known_runtime.runtime_version_subscriptions) > 0
\* C31: an iteration of the background task processes one header, the last
\* of the headers that were ready when the drain ended, also when the stream
\* has ended by then; the headers taken before it are dropped with no storage
\* query and nothing sent to a subscriber; the storage query and the
\* best-block notifications of the iteration are those of that header, and the
\* headers processed follow the order of the stream.
C31_Coalescing ==
    [][/\ (bg_pc = "debounce" /\ bg_pc' # bg_pc) =>
            LET taken == <<Unwrap(new_best_block)>> \o blocks_stream
            IN /\ bg_pc' = "download"
               /\ new_best_block' = Some(taken[Len(taken)])
               /\ blocks_stream' = <<>>
               /\ UNCHANGED <<code_query_result, iter, latest_known_runtime,
                              last_best_notified>>
       /\ (bg_pc = "next" /\ bg_pc' # bg_pc /\ bg_pc' # "exited") =>
            /\ bg_pc' = "debounce"
            /\ new_best_block' = Some(Head(blocks_stream))
            /\ UNCHANGED <<code_query_result, iter, latest_known_runtime,
                           last_best_notified>>
       /\ (bg_pc \in {"next", "debounce"} /\ IsSome(new_best_block')
              /\ IsSome(last_best_notified)) =>
            Unwrap(last_best_notified) < Unwrap(new_best_block')
       /\ (bg_pc \notin {"next", "debounce", "end"}) =>
            /\ new_best_block' = new_best_block
            /\ \A i \in 1..Len(iter'.log) :
                   (iter'.log[i].kind = "best" =>
                       iter'.log[i].value = Unwrap(new_best_block))
       /\ (bg_pc = "download" /\ bg_pc' # bg_pc) =>
            code_query_result' \in StorageQueryResults(Unwrap(new_best_block))]_vars

C31_Witness ==
    /\ bg_pc = "compare"
    /\ new_best_block = Some(1)
    /\ stream_finished
    /\ ~runtime_matches_best_block
    /\ SentTo(iter.log, "best") # {}
\* What a notification pass over subscriptions must come to: every subscriber
\* is sent the item once, the send succeeds exactly on the open channels, and
\* the list is left with the subscribers whose send succeeded, each once.
PassSound(subscriptions, open, pass) ==
    /\ Len(pass.sent) = Len(subscriptions)
    /\ \A i \in 1..Len(subscriptions) :
           Cardinality({j \in 1..Len(pass.sent) : pass.sent[j].sub = subscriptions[i]}) = 1
    /\ \A j \in 1..Len(pass.sent) :
           /\ pass.sent[j].ok = open[pass.sent[j].sub]
           /\ Cardinality({k \in 1..Len(pass.subscriptions) :
                               pass.subscriptions[k] = pass.sent[j].sub})
                 = (IF pass.sent[j].ok THEN 1 ELSE 0)
    /\ \A k \in 1..Len(pass.subscriptions) :
           \E j \in 1..Len(pass.sent) : pass.sent[j].sub = pass.subscriptions[k]

\* C32: a notification pass over the best-header list or the runtime-version
\* list, for any pattern of open and closed channels, sends the item exactly
\* once to every subscriber of the list and leaves in the list exactly the
\* subscribers whose send succeeded, each once; the passes of the background
\* task are such passes.
C32_SubscriberPruning ==
    /\ [](\A open \in Open :
             /\ PassSound(latest_known_runtime.best_blocks_subscriptions, open,
                          Notify(latest_known_runtime.best_blocks_subscriptions, open))
             /\ PassSound(latest_known_runtime.runtime_version_subscriptions, open,
                          Notify(latest_known_runtime.runtime_version_subscriptions, open)))
    /\ [][/\ (bg_pc = "notify_best" /\ bg_pc' # bg_pc) =>
               \E open \in Open :
                   LET before == latest_known_runtime.best_blocks_subscriptions
                       pass == [subscriptions |->
                                    latest_known_runtime'.best_blocks_subscriptions,
                                sent |-> [i \in 1..Len(before) |->
                                             [sub |-> iter'.log[Len(iter.log) + i].sub,
                                              ok |-> iter'.log[Len(iter.log) + i].ok]]]
                   IN /\ Len(iter'.log) = Len(iter.log) + Len(before)
                      /\ PassSound(before, open, pass)
          /\ (bg_pc = "notify_version" /\ bg_pc' # bg_pc) =>
               \E open \in Open :
                   LET before == latest_known_runtime.runtime_version_subscriptions
                       pass == [subscriptions |->
                                    latest_known_runtime'.runtime_version_subscriptions,
                                sent |-> [i \in 1..Len(before) |->
                                             [sub |-> iter'.log[Len(iter.log) + i].sub,
                                              ok |-> iter'.log[Len(iter.log) + i].ok]]]
                   IN /\ Len(iter'.log) = Len(iter.log) + Len(before)
                      /\ PassSound(before, open, pass)]_vars

C32_Witness ==
    /\ bg_pc = "unpack"
    /\ Len(iter.log) = 2
    /\ iter.log[1].ok # iter.log[2].ok
    /\ Len(latest_known_runtime.best_blocks_subscriptions) = 1
\* C33: under fair scheduling every runtime call that has been started
\* returns a value, Ok or an error, to its caller, and an attempt is only
\* restarted when the spec_version found at the second lock differs from the
\* one of the snapshot.
C33_CallTerminates ==
    /\ (call_pc \notin {"idle", "aborted"})
          ~> (call_pc = "idle" /\ IsSome(call.result) /\ call.result # Some(<<"panic">>))
    /\ [][(call_pc = "relock" /\ call_pc' = "snapshot") =>
             /\ latest_known_runtime.runtime.ok
             /\ SpecVersionMismatch(latest_known_runtime.runtime, call.spec_version)]_vars

\* A call under way stops: it returns, or it panics.
CallStops ==
    (call_pc \notin {"idle", "aborted"}) ~> (call_pc \in {"idle", "aborted"})
\* C34: the background task ends only at the head of its loop, when the
\* best-block stream is exhausted, and then it does end; whatever the storage
\* query and the build of the runtime come to, the iteration runs to its end
\* without waiting for anyone and the task is back at the head of the loop,
\* where it takes the next header of the stream if there is one.
C34_LoopExit ==
    /\ [][/\ bg_pc' = "exited" =>
               \/ bg_pc = "exited"
               \/ bg_pc = "next" /\ blocks_stream = <<>> /\ stream_finished
          /\ (bg_pc = "next" /\ bg_pc' # bg_pc) =>
               IF blocks_stream = <<>>
               THEN bg_pc' = "exited"
               ELSE bg_pc' = "debounce" /\ new_best_block' = Some(Head(blocks_stream))
          /\ (bg_pc = "unpack" /\ bg_pc' # bg_pc) =>
               bg_pc' = (IF code_query_result.kind = "Err" THEN "end" ELSE "compare")
          /\ (bg_pc = "compare" /\ bg_pc' # bg_pc) => bg_pc' \in {"end", "rebuild"}
          /\ (bg_pc = "rebuild" /\ bg_pc' # bg_pc) => bg_pc' = "notify_version"
          /\ (bg_pc = "notify_version" /\ bg_pc' # bg_pc) => bg_pc' = "end"
          /\ (bg_pc = "end" /\ bg_pc' # bg_pc) => bg_pc' = "next"]_vars
    /\ []((Running /\ bg_pc \in {"notify_best", "unpack", "compare", "rebuild",
                                  "notify_version", "end"})
             => ENABLED <<BgTask>>_vars)
    /\ []((Running /\ bg_pc = "next" /\ (blocks_stream # <<>> \/ stream_finished))
             => ENABLED <<BgTask>>_vars)

C34_Witness ==
    /\ bg_pc = "exited"
    /\ stream_finished
    /\ ~latest_known_runtime.runtime.ok
    /\ runtime_matches_best_block
\* The virtual machine of the runtime the cache holds: the one built from
\* the bytes stored next to it.
CachedVm(lkr) ==
    Unwrap(SuccessfulRuntime_from_params(lkr.runtime_code, lkr.heap_pages).virtual_machine)

\* C38: whenever the cache holds a runtime with Some(metadata), the metadata
\* is what the runtime now held by the cache returns for Metadata_metadata; a
\* rebuild installs a runtime without metadata, and metadata() stores, and
\* returns, the value of the runtime that has executed its call.
C38_MetadataOfCachedRuntime ==
    /\ []((latest_known_runtime.runtime.ok /\ IsSome(latest_known_runtime.runtime.metadata))
             => Unwrap(latest_known_runtime.runtime.metadata)
                  = MetadataOf(CachedVm(latest_known_runtime)))
    /\ []((latest_known_runtime.runtime.ok
              /\ IsSome(latest_known_runtime.runtime.virtual_machine))
             => Unwrap(latest_known_runtime.runtime.virtual_machine)
                  = CachedVm(latest_known_runtime))
    /\ [][/\ (bg_pc = "rebuild" /\ bg_pc' # bg_pc) =>
               latest_known_runtime'.runtime.metadata = None
          /\ (call_pc = "idle" /\ call_pc' = "idle" /\ call' # call
                 /\ latest_known_runtime.runtime.ok) =>
               call'.result
                 = Some(<<"Ok", MetadataOf(CachedVm(latest_known_runtime))>>)
          /\ (call_pc = "returned_ok" /\ call_pc' # call_pc /\ call.metadata
                 /\ call'.result # Some(<<"MetadataDecode">>)) =>
               /\ call'.result
                    = Some(<<"Ok", MetadataOf(CachedVm(latest_known_runtime))>>)
               /\ latest_known_runtime'.runtime.metadata
                    = Some(MetadataOf(CachedVm(latest_known_runtime')))]_vars

C38_Witness ==
    /\ latest_known_runtime.runtime.ok
    /\ IsSome(latest_known_runtime.runtime.metadata)
    /\ latest_known_runtime.runtime_code = Some("B2")
    /\ call.result = Some(<<"Ok", Unwrap(latest_known_runtime.runtime.metadata)>>)
    /\ latest_known_runtime.runtime_block_height = 2
\* The runtime-version subscriptions the cache holds.
VersionSubscribers == 
    {latest_known_runtime.runtime_version_subscriptions[i] :
        i \in 1..Len(latest_known_runtime.runtime_version_subscriptions)}

\* C39: subscribe_runtime_version pushes the sender and reads the version in
\* one hold of the mutex.  Except between a replacement of the runtime and
\* the notification pass that follows it in the same hold, every subscriber
\* in the list holds the version of the runtime in the cache: the one it was
\* returned, or the one a later replacement has sent it.  A subscriber is
\* never added between a replacement and its pass, so that a pass sends only
\* to subscribers registered before the replacement, and to all of those in
\* the list.
C39_SubscribeUnderOneLock ==
    /\ [](bg_pc # "notify_version" =>
            \A subscription \in VersionSubscribers :
                delivered[subscription] = Some(VersionOf(latest_known_runtime.runtime)))
    /\ [](bg_pc = "notify_version" => ENABLED <<BgTask>>_vars)
    /\ [][/\ (receivers' # receivers) =>
               (/\ bg_pc # "notify_version"
                /\ VersionOf(latest_known_runtime'.runtime)
                     = VersionOf(latest_known_runtime.runtime))
          /\ (bg_pc = "rebuild" /\ bg_pc' # bg_pc) =>
               (/\ bg_pc' = "notify_version"
                /\ latest_known_runtime'.runtime_version_subscriptions
                     = latest_known_runtime.runtime_version_subscriptions)
          /\ (VersionOf(latest_known_runtime'.runtime)
                 # VersionOf(latest_known_runtime.runtime)) =>
               (bg_pc = "rebuild" /\ bg_pc' = "notify_version")
          /\ (bg_pc = "notify_version" /\ bg_pc' # bg_pc) =>
               (/\ SentTo(iter'.log, "version") = VersionSubscribers
                /\ \A i \in 1..Len(iter'.log) :
                      iter'.log[i].kind = "version" =>
                        iter'.log[i].value = VersionOf(latest_known_runtime.runtime))
          /\ (delivered' # delivered) =>
               (receivers' # receivers \/ bg_pc = "notify_version")]_vars

C39_Witness ==
    /\ bg_pc = "end"
    /\ latest_known_runtime.runtime_block_height = 2
    /\ latest_known_runtime.runtime_code = Some("B2")
    /\ receivers = 2
    /\ latest_known_runtime.runtime_version_subscriptions = <<2>>
    /\ delivered = [subscription \in 1..MaxSubscribers |->
                       IF subscription = 2 THEN Some(<<"Ok", 2>>) ELSE None]
    /\ \E i \in 1..Len(iter.log) :
          iter.log[i] = Event("version", 2, TRUE, <<"Ok", 2>>)
\* The runtime built from the :code and :heappages of a block.
RuntimeOfBlock(header) ==
    SuccessfulRuntime_from_params(BlockStorage(header).code, BlockStorage(header).heap_pages)

\* C40: when a runtime call has succeeded, the value was returned by the
\* runtime built from the :code and :heappages of the block whose hash and
\* state root the attempt has read from the cache, the block the call proof
\* was requested for and verified against.
C40_CallOnRuntimeOfBlock ==
    call_pc = "returned_ok" =>
        /\ call.runtime_block_hash
             = hash_from_scale_encoded_header(call.runtime_block_height)
        /\ call.runtime_block_state_root
             = header_decode(call.runtime_block_height).state_root
        /\ RuntimeOfBlock(call.runtime_block_height).ok
        /\ call.return_value
             = Some(ReturnValue(Unwrap(
                   RuntimeOfBlock(call.runtime_block_height).virtual_machine)))
====
